---------------------------- MODULE Spec2Model ----------------------------
(***************************************************************************)
(* A model of pentops/log.go: the context attribute store (MapContext,     *)
(* WithFields, collectArgs), the trace store (TraceContext), the callback  *)
(* logger (CallbackLogger), the JSON and pretty renderers, the line        *)
(* printers (pretty.Printer, its writeBuffer, and logcat) and the gRPC     *)
(* interceptors.                                                           *)
(*                                                                         *)
(* Go values are modelled as follows.                                      *)
(*   any        a record [kind, s, m]: kind names the dynamic type, s      *)
(*              holds a string or the digits of an integer, m holds the    *)
(*              entries of a map (or the one attribute of an slog.Attr)    *)
(*   slog.Attr  a record [Key, Value], Value an `any`                      *)
(*   []slog.Attr a slice header [ok, arr, len] over a backing array kept   *)
(*              in `heap`; arr = 0 is the nil slice                        *)
(*   context    a node [parent, key, slice, str] of `ctxs`; Value walks    *)
(*              the parents as context.Value does                          *)
(***************************************************************************)
EXTENDS Integers, Sequences, FiniteSets, TLC

VARIABLES
    heap,       \* backing arrays of the []slog.Attr slices, by allocation order
    ctxs,       \* the context nodes created so far; node 1 is context.Background()
    logger,     \* the CallbackLogger: [Level, Collectors]
    added,      \* history: the collectors passed to AddCollector, in call order
    passed,     \* history: number of log calls whose level was >= the threshold
    rendered,   \* number of times the Callback (the renderer) was invoked
    last,       \* the most recent operation, its inputs and what it did
    exited,     \* TRUE once os.Exit was called
    printer,    \* the line printer: its prefix, didDots and lastLine
    output,     \* what was written to the printer's or the formatter's io.Writer
    stdout,     \* what was written to the standard output of the process
    fed,        \* history: the lines given to the printer, and what each one did
    wbuf,       \* the writeBuffer of WriterInterceptor: its buffer and prefix
    stream,     \* history: the data of the Write calls on the writeBuffer
    sink,       \* the Write calls the renderers made on their io.Writer, with the caller
    pcs,        \* the emit calls in progress: what each one has still to write
    rpc         \* the calls of the gRPC interceptors, and what each one did

vars == <<heap, ctxs, logger, added, passed, rendered, last, exited, printer, output,
          stdout, fed, wbuf, stream, sink, pcs, rpc>>

---------------------------------------------------------------------------
(* Bounds of the model *)

\* longest attribute list passed to WithAttrs in SpecMerge
MaxLen == 2
\* contexts derived from Background in Spec
MaxCtx == 2
\* log calls in SpecLog
MaxCalls == 3
\* AddCollector calls in SpecLog
MaxAdd == 1
\* log calls that pass the filter in Spec
MaxEmit == 1
\* lines given to a printer in SpecCompact
MaxLines == 4

---------------------------------------------------------------------------
(* Values *)

NilValue == [kind |-> "nil", s |-> "", m |-> {}]
Str(s) == [kind |-> "string", s |-> s, m |-> {}]
Num(s) == [kind |-> "int", s |-> s, m |-> {}]

\* slog.Attr{Key, Value}; slog.Any(k, v) and slog.String(k, v) build one
Attr(k, v) == [Key |-> k, Value |-> v]

\* the zero slog.Attr, as make([]slog.Attr, n) fills a slice with
ZeroAttr == Attr("", NilValue)

\* an slog.Attr passed as an `any`
AttrItem(a) == [kind |-> "attr", s |-> "", m |-> {a}]

\* a map[string]any passed as an `any`; entries is the set of its (key, value) pairs
MapItem(entries) == [kind |-> "map", s |-> "", m |-> entries]

badKey == "!BADKEY"

\* ascending byte order of the keys the model uses, for sort.StringSlice
KeyOrder == <<"", "!BADKEY", "a", "b", "c", "error", "trace">>

Range(f) == {f[i] : i \in DOMAIN f}

KeysOf(list) == {list[i].Key : i \in DOMAIN list}

KeyUnique(list) == \A i, j \in DOMAIN list : list[i].Key = list[j].Key => i = j

\* every key of the list carries one value (a key may be repeated with the same value)
Functional(list) == \A i, j \in DOMAIN list : list[i].Key = list[j].Key => list[i] = list[j]

\* index of the first element of list with key k (0 when there is none)
IndexOf(list, k) ==
    IF k \in KeysOf(list) THEN CHOOSE i \in DOMAIN list :
                                   /\ list[i].Key = k
                                   /\ \A j \in 1..(i - 1) : list[j].Key # k
    ELSE 0

---------------------------------------------------------------------------
(* mapToAttrs, collectArgs, shiftNextArg *)

\* sort.StringSlice(keys).Sort() on a set of keys
SortKeys(keys) == SelectSeq(KeyOrder, LAMBDA k : k \in keys)

MapLookup(entries, k) == (CHOOSE e \in entries : e.Key = k).Value

\* make([]slog.Attr, len(keys)) followed by one append per key
mapToAttrs(fields) ==
    LET keys == SortKeys({e.Key : e \in fields})
        made == [i \in 1..Len(keys) |-> ZeroAttr]
    IN  made \o [i \in 1..Len(keys) |-> Attr(keys[i], MapLookup(fields, keys[i]))]

\* <<the attributes of the first argument(s), the arguments left>>
shiftNextArg(args) ==
    LET x == Head(args) IN
    CASE x.kind = "string" ->
            IF Len(args) = 1
            THEN << <<Attr(badKey, x)>>, <<>> >>
            ELSE << <<Attr(x.s, args[2])>>, SubSeq(args, 3, Len(args)) >>
      [] x.kind = "attr" -> << <<CHOOSE a \in x.m : TRUE>>, Tail(args) >>
      [] x.kind = "map"  -> << mapToAttrs(x.m), Tail(args) >>
      [] OTHER           -> << <<Attr(badKey, x)>>, Tail(args) >>

RECURSIVE collectArgs(_)
collectArgs(args) ==
    IF Len(args) = 0 THEN <<>>
    ELSE LET next == shiftNextArg(args)
         IN  next[1] \o collectArgs(next[2])

---------------------------------------------------------------------------
(* Slices and contexts *)

NoSlice == [ok |-> FALSE, arr |-> 0, len |-> 0]
NilSlice == [ok |-> TRUE, arr |-> 0, len |-> 0]

\* the elements a slice header shows of its backing array
Elems(h, s) == IF s.arr = 0 THEN <<>> ELSE SubSeq(h[s.arr], 1, s.len)

\* allocate a backing array holding list; <<heap, slice>>
Alloc(h, list) == << Append(h, list), [ok |-> TRUE, arr |-> Len(h) + 1, len |-> Len(list)] >>

Background == [parent |-> 0, key |-> "none", slice |-> NoSlice, str |-> "",
               arg |-> NoSlice, given |-> <<>>, clean |-> TRUE]

\* ctx.Value(key): the nearest node, from c up, that holds key (0 when none does)
RECURSIVE Value(_, _, _)
Value(nodes, c, key) ==
    IF c = 0 THEN 0
    ELSE IF nodes[c].key = key THEN c
    ELSE Value(nodes, nodes[c].parent, key)

\* parent.Value(simpleContextKey).([]slog.Attr): the slice, with ok
FieldsSlice(nodes, c) ==
    LET n == Value(nodes, c, "fields") IN IF n = 0 THEN NoSlice ELSE nodes[n].slice

\* the attribute list a context carries, as a sequence (empty when it carries none)
ListIn(h, nodes, c) == Elems(h, FieldsSlice(nodes, c))

---------------------------------------------------------------------------
(* MapContext.WithAttrs *)

\* newAttrKeys[k] after the first loop: the last attribute of attrs with key k
newAttrKeys(attrs, k) ==
    attrs[CHOOSE i \in DOMAIN attrs :
              /\ attrs[i].Key = k
              /\ \A j \in (i + 1)..Len(attrs) : attrs[j].Key # k]

\* the loop over existing: <<the attributes appended, the keys left in newAttrKeys>>
RECURSIVE mergeExisting(_, _, _)
mergeExisting(existing, attrs, live) ==
    IF existing = <<>> THEN << <<>>, live >>
    ELSE LET attr == Head(existing)
             exists == attr.Key \in live
             rest == mergeExisting(Tail(existing), attrs,
                                   IF exists THEN live \ {attr.Key} ELSE live)
         IN  << << IF exists THEN newAttrKeys(attrs, attr.Key) ELSE attr >> \o rest[1],
                rest[2] >>

\* a variant that keeps the existing value of a key both lists hold
mergeAttrsKeepOld(existing, attrs) ==
    existing \o SelectSeq(attrs, LAMBDA attr : attr.Key \notin KeysOf(existing))

\* a variant whose second loop ranges over the keys left in newAttrKeys, once each
mergeAttrsOverMap(existing, attrs) ==
    LET first == mergeExisting(existing, attrs, KeysOf(attrs))
        left == SelectSeq(KeyOrder, LAMBDA k : k \in first[2])
    IN  first[1] \o [i \in 1..Len(left) |-> newAttrKeys(attrs, left[i])]

\* a variant whose second loop appends every attribute of attrs
mergeAttrsAppendAll(existing, attrs) ==
    mergeExisting(existing, attrs, KeysOf(attrs))[1] \o attrs

\* the merged list of existing and attrs (both loops)
mergeAttrs(existing, attrs) ==
    LET first == mergeExisting(existing, attrs, KeysOf(attrs))
    IN  first[1] \o SelectSeq(attrs, LAMBDA attr : attr.Key \in first[2])

\* a variant that writes the merged values into the existing slice's backing array
WithAttrsInPlace(h, nodes, parent, attrs) ==
    LET existing == FieldsSlice(nodes, parent) IN
    IF ~existing.ok
    THEN [heap |-> h, slice |-> attrs]
    ELSE IF existing.arr = 0
    THEN LET a == Alloc(h, Elems(h, attrs)) IN [heap |-> a[1], slice |-> a[2]]
    ELSE LET merged == mergeAttrs(Elems(h, existing), Elems(h, attrs))
             kept == SubSeq(merged, 1, existing.len)
             a == Alloc([h EXCEPT ![existing.arr] =
                             kept \o SubSeq(h[existing.arr], existing.len + 1,
                                            Len(h[existing.arr]))],
                        merged)
         IN  [heap |-> a[1], slice |-> a[2]]

\* the slice WithAttrs stores in the new context, and the heap after it
WithAttrs(h, nodes, parent, attrs) ==
    LET existing == FieldsSlice(nodes, parent) IN
    IF ~existing.ok
    THEN [heap |-> h, slice |-> attrs]
    ELSE LET merged == mergeAttrs(Elems(h, existing), Elems(h, attrs))
             cap == existing.len + attrs.len
             array == merged \o [i \in 1..(cap - Len(merged)) |-> ZeroAttr]
         IN  [heap |-> Append(h, array),
              slice |-> [ok |-> TRUE, arr |-> Len(h) + 1, len |-> Len(merged)]]

---------------------------------------------------------------------------
(* WithFields, WithField, WithError, TraceContext.WithTrace *)

\* what the arguments ask to attach, read as slog reads key/value arguments:
\* a history value kept with each context, not used by the operations
RECURSIVE Requested(_)
Requested(args) ==
    IF Len(args) = 0 THEN <<>>
    ELSE LET x == Head(args) IN
         CASE x.kind = "string" /\ Len(args) > 1 ->
                 <<Attr(x.s, args[2])>> \o Requested(SubSeq(args, 3, Len(args)))
           [] x.kind = "attr" -> <<CHOOSE a \in x.m : TRUE>> \o Requested(Tail(args))
           [] x.kind = "map" ->
                 LET keys == SelectSeq(KeyOrder, LAMBDA k : k \in {e.Key : e \in x.m})
                 IN  [i \in 1..Len(keys) |-> CHOOSE e \in x.m : e.Key = keys[i]]
                     \o Requested(Tail(args))
           [] OTHER -> <<Attr(badKey, x)>> \o Requested(Tail(args))

FieldsNode(nodes, parent, r, arg, given) ==
    [parent |-> parent, key |-> "fields", slice |-> r.slice, str |-> "",
     arg |-> arg, given |-> given,
     clean |-> nodes[parent].clean /\ KeyUnique(given)]

\* the context WithFields returns: [heap, node]
WithFields(h, nodes, parent, args) ==
    LET attrs == collectArgs(args)
        a == IF Len(args) = 0 THEN <<h, NilSlice>> ELSE Alloc(h, attrs)
        r == WithAttrs(a[1], nodes, parent, a[2])
    IN  [heap |-> r.heap, node |-> FieldsNode(nodes, parent, r, a[2], Requested(args))]

WithField(h, nodes, parent, args) == WithFields(h, nodes, parent, args)

WithError(h, nodes, parent, err) == WithField(h, nodes, parent, <<Str("error"), Str(err)>>)

\* context.WithValue(ctx, simpleTraceKey, value)
WithTrace(nodes, parent, value) ==
    [parent |-> parent, key |-> "trace", slice |-> NoSlice, str |-> value,
     arg |-> NoSlice, given |-> <<>>, clean |-> nodes[parent].clean]

---------------------------------------------------------------------------
(* Collectors *)

\* MapContext.LogFieldsFromContext
MapLogFieldsFromContext(h, nodes, c) ==
    LET values == FieldsSlice(nodes, c)
    IN  IF ~values.ok THEN <<>> ELSE Elems(h, values)

\* TraceContext.LogFieldsFromContext
TraceLogFieldsFromContext(h, nodes, c) ==
    LET n == Value(nodes, c, "trace")
    IN  IF n = 0 THEN <<>> ELSE <<Attr("trace", Str(nodes[n].str))>>

\* cb.LogFieldsFromContext(ctx) for the collector named cb
LogFieldsFromContext(cb, h, nodes, c) ==
    IF cb = "DefaultContext" THEN MapLogFieldsFromContext(h, nodes, c)
    ELSE TraceLogFieldsFromContext(h, nodes, c)

---------------------------------------------------------------------------
(* CallbackLogger *)

LevelDebug == -4
LevelInfo == 0
LevelWarn == 4
LevelError == 8

\* slog.Level.String() on the four named levels
LevelString(level) ==
    CASE level = LevelDebug -> "DEBUG"
      [] level = LevelInfo  -> "INFO"
      [] level = LevelWarn  -> "WARN"
      [] level = LevelError -> "ERROR"

NewCallbackLogger == [Level |-> LevelInfo, Collectors |-> <<"DefaultContext", "DefaultTrace">>]

SetLevel(sl, level) == [sl EXCEPT !.Level = level]

\* a variant of AddCollector that puts the collector first
AddCollectorFirst(sl, collector) == [sl EXCEPT !.Collectors = <<collector>> \o @]

AddCollector(sl, collector) == [sl EXCEPT !.Collectors = Append(@, collector)]

\* the collectors invoked, in order, and the fields they returned, appended in order
RECURSIVE extractFrom(_, _, _, _)
extractFrom(collectors, h, nodes, c) ==
    IF collectors = <<>> THEN [invoked |-> <<>>, fields |-> <<>>]
    ELSE LET cb == Head(collectors)
             rest == extractFrom(Tail(collectors), h, nodes, c)
         IN  [invoked |-> <<cb>> \o rest.invoked,
              fields |-> LogFieldsFromContext(cb, h, nodes, c) \o rest.fields]

\* a variant that drops an attribute whose key an earlier collector already gave
extractFieldsFirstKey(sl, h, nodes, c) ==
    LET ef == extractFrom(sl.Collectors, h, nodes, c)
        keep == {i \in DOMAIN ef.fields :
                    \A j \in 1..(i - 1) : ef.fields[j].Key # ef.fields[i].Key}
        kept[i \in 0..Len(ef.fields)] ==
            IF i = 0 THEN <<>>
            ELSE IF i \in keep THEN kept[i - 1] \o <<ef.fields[i]>> ELSE kept[i - 1]
    IN  [invoked |-> ef.invoked, fields |-> kept[Len(ef.fields)]]

\* CallbackLogger.extractFields
extractFields(sl, h, nodes, c) == extractFrom(sl.Collectors, h, nodes, c)

\* a variant that aggregates before it looks at the level
logCollectFirst(sl, h, nodes, c, level, msg) ==
    LET ef == extractFields(sl, h, nodes, c) IN
    IF level < sl.Level
    THEN [invoked |-> ef.invoked, calls |-> <<>>]
    ELSE [invoked |-> ef.invoked,
          calls |-> << [level |-> LevelString(level), msg |-> msg, fields |-> ef.fields] >>]

\* a variant that also drops the calls made at the threshold itself
logAboveOnly(sl, h, nodes, c, level, msg) ==
    IF level <= sl.Level
    THEN [invoked |-> <<>>, calls |-> <<>>]
    ELSE LET ef == extractFields(sl, h, nodes, c)
         IN  [invoked |-> ef.invoked,
              calls |-> << [level |-> LevelString(level), msg |-> msg, fields |-> ef.fields] >>]

\* CallbackLogger.log: the collectors invoked and the Callback invocations
log(sl, h, nodes, c, level, msg) ==
    IF level < sl.Level
    THEN [invoked |-> <<>>, calls |-> <<>>]
    ELSE LET ef == extractFields(sl, h, nodes, c)
         IN  [invoked |-> ef.invoked,
              calls |-> << [level |-> LevelString(level), msg |-> msg, fields |-> ef.fields] >>]

\* slog.Record.Add(args...) followed by Record.Attrs: the attributes of the arguments
RECURSIVE recordAttrs(_)
recordAttrs(args) ==
    IF Len(args) = 0 THEN <<>>
    ELSE LET x == Head(args) IN
         CASE x.kind = "string" ->
                 IF Len(args) = 1 THEN <<Attr(badKey, x)>>
                 ELSE <<Attr(x.s, args[2])>> \o recordAttrs(SubSeq(args, 3, Len(args)))
           [] x.kind = "attr" -> <<CHOOSE a \in x.m : TRUE>> \o recordAttrs(Tail(args))
           [] OTHER -> <<Attr(badKey, x)>> \o recordAttrs(Tail(args))

\* CallbackLogger.slog
slog(sl, h, nodes, c, level, msg, args) ==
    IF level < sl.Level
    THEN [invoked |-> <<>>, calls |-> <<>>]
    ELSE LET ef == extractFields(sl, h, nodes, c)
         IN  [invoked |-> ef.invoked,
              calls |-> << [level |-> LevelString(level), msg |-> msg,
                            fields |-> ef.fields \o recordAttrs(args)] >>]

\* fmt.Sprintf on a format given as its pieces: literal text and "%s" verbs
RECURSIVE Sprintf(_, _)
Sprintf(format, params) ==
    IF format = <<>>
    THEN IF params = <<>> THEN ""
         ELSE "%!(EXTRA string=" \o params[1] \o ")"
    ELSE IF Head(format) = "%s"
         THEN IF params = <<>>
              THEN "%!s(MISSING)" \o Sprintf(Tail(format), params)
              ELSE Head(params) \o Sprintf(Tail(format), Tail(params))
         ELSE Head(format) \o Sprintf(Tail(format), params)

\* the level each method logs at
MethodLevel(op) ==
    CASE op \in {"Debug", "Debugf", "DebugContext"} -> LevelDebug
      [] op \in {"Info", "Infof", "InfoContext"}    -> LevelInfo
      [] op \in {"Warn", "Warnf"}                   -> LevelWarn
      [] op \in {"Error", "Errorf", "ErrorContext", "Fatal", "Fatalf"} -> LevelError

---------------------------------------------------------------------------
(* Inputs *)

\* the attributes SpecMerge builds the lists of WithAttrs from
MergeAttrs == {Attr("a", Num("1")), Attr("a", Num("2")), Attr("b", Num("1")),
               Attr("b", Num("2")), Attr("c", Num("1")), ZeroAttr}

AttrLists(n) == UNION {[1..k -> MergeAttrs] : k \in 0..n}

\* the lists passed to WithAttrs in Spec
AttrInputs == { <<>>,
                <<Attr("a", Num("1"))>>,
                <<Attr("a", Num("1")), Attr("b", Num("2"))>>,
                <<Attr("b", Num("3")), Attr("c", Num("4"))>>,
                <<Attr("a", Num("1")), Attr("a", Num("2"))>> }

\* the argument lists passed to WithFields in Spec
FieldsInputs == { <<>>,
                  <<Str("a"), Num("1")>>,
                  <<Str("a")>>,
                  <<Num("1")>>,
                  <<AttrItem(Attr("b", Num("2")))>>,
                  <<MapItem({Attr("a", Num("1")), Attr("b", Num("2"))})>>,
                  <<MapItem({Attr("b", Num("3")), Attr("c", Num("4"))})>>,
                  <<Str("a"), Num("1"), Str("a"), Num("2")>> }

Errs == {"e"}
Traces == {"t"}
Msgs == {"m"}

\* the format strings and parameters of the f-variants
Formats == { <<"m">>, <<"m ", "%s">> }
Params == { <<>>, <<"x">> }

\* the extra arguments of the slog-style methods
SlogArgs == { <<>>, <<Str("a"), Num("9")>>, <<Str("a")>>, <<AttrItem(Attr("b", Num("9")))>> }

\* the thresholds SetLevel is called with: the four named levels and one above ERROR
Levels == {LevelDebug, LevelInfo, LevelWarn, LevelError, LevelError + 4}

CollectorNames == {"DefaultContext", "DefaultTrace"}

---------------------------------------------------------------------------
(* Actions *)

\* `last` for an operation op that made or used context c
Op(op, c) ==
    [op |-> op, ctx |-> c, level |-> 0, threshold |-> 0, collectors |-> <<>>,
     fmt |-> <<>>, params |-> <<>>, args |-> <<>>, invoked |-> <<>>, calls |-> <<>>]

\* DefaultContext.WithAttrs(ctxs[p], attrs) with the caller's slice a in heap h
AttachSlice(op, p, h, a) ==
    LET r == WithAttrs(h, ctxs, p, a)
    IN  /\ heap' = r.heap
        /\ ctxs' = Append(ctxs, FieldsNode(ctxs, p, r, a, Elems(h, a)))
        /\ last' = Op(op, Len(ctxs) + 1)
        /\ UNCHANGED <<logger, added, passed, rendered, exited, printer, output, stdout, fed,
                     wbuf, stream, sink, pcs, rpc>>

WithAttrsCall(p, attrs) ==
    LET a == Alloc(heap, attrs)
    IN  AttachSlice("WithAttrs", p, a[1], a[2])

\* WithAttrs again, on the context the last call returned, with that call's slice
ReattachCall ==
    /\ last.op = "WithAttrs"
    /\ AttachSlice("Reattach", last.ctx, heap, ctxs[last.ctx].arg)

WithFieldsCall(p, args) ==
    LET r == WithFields(heap, ctxs, p, args)
    IN  /\ heap' = r.heap
        /\ ctxs' = Append(ctxs, r.node)
        /\ last' = [Op("WithFields", Len(ctxs) + 1) EXCEPT !.args = args]
        /\ UNCHANGED <<logger, added, passed, rendered, exited, printer, output, stdout, fed,
                     wbuf, stream, sink, pcs, rpc>>

WithErrorCall(p, err) ==
    LET r == WithError(heap, ctxs, p, err)
    IN  /\ heap' = r.heap
        /\ ctxs' = Append(ctxs, r.node)
        /\ last' = Op("WithError", Len(ctxs) + 1)
        /\ UNCHANGED <<logger, added, passed, rendered, exited, printer, output, stdout, fed,
                     wbuf, stream, sink, pcs, rpc>>

WithTraceCall(p, value) ==
    /\ ctxs' = Append(ctxs, WithTrace(ctxs, p, value))
    /\ last' = Op("WithTrace", Len(ctxs) + 1)
    /\ UNCHANGED <<heap, logger, added, passed, rendered, exited, printer, output, stdout, fed,
                     wbuf, stream, sink, pcs, rpc>>

SetLevelCall(level) ==
    /\ logger' = SetLevel(logger, level)
    /\ last' = [Op("SetLevel", 0) EXCEPT !.level = level]
    /\ UNCHANGED <<heap, ctxs, added, passed, rendered, exited, printer, output, stdout, fed,
                     wbuf, stream, sink, pcs, rpc>>

AddCollectorCall(collector) ==
    /\ logger' = AddCollector(logger, collector)
    /\ added' = Append(added, collector)
    /\ last' = Op("AddCollector", 0)
    /\ UNCHANGED <<heap, ctxs, passed, rendered, exited, printer, output, stdout, fed,
                     wbuf, stream, sink, pcs, rpc>>

\* what a log call leaves: r is what log or slog did
Logged(op, c, format, params, args, r) ==
    /\ last' = [op |-> op, ctx |-> c, level |-> MethodLevel(op), threshold |-> logger.Level,
                collectors |-> logger.Collectors, fmt |-> format, params |-> params,
                args |-> args, invoked |-> r.invoked, calls |-> r.calls]
    /\ rendered' = rendered + Len(r.calls)
    /\ passed' = passed + (IF MethodLevel(op) >= logger.Level THEN 1 ELSE 0)
    /\ UNCHANGED <<heap, ctxs, logger, added, printer, output, stdout, fed,
                     wbuf, stream, sink, pcs, rpc>>

\* Debug, Info, Warn, Error (the package functions call DefaultLogger's methods)
LogCall(op, c, msg) ==
    /\ Logged(op, c, <<msg>>, <<>>, <<>>, log(logger, heap, ctxs, c, MethodLevel(op), msg))
    /\ UNCHANGED exited

\* Debugf, Infof, Warnf, Errorf
LogfCall(op, c, format, params) ==
    /\ Logged(op, c, format, params, <<>>,
              log(logger, heap, ctxs, c, MethodLevel(op), Sprintf(format, params)))
    /\ UNCHANGED exited

\* DebugContext, InfoContext, ErrorContext
SlogCall(op, c, msg, args) ==
    /\ Logged(op, c, <<msg>>, <<>>, args,
              slog(logger, heap, ctxs, c, MethodLevel(op), msg, args))
    /\ UNCHANGED exited

\* a variant of Fatal that returns to its caller
FatalReturns(c, msg) ==
    /\ Logged("Fatal", c, <<msg>>, <<>>, <<>>, log(logger, heap, ctxs, c, LevelError, msg))
    /\ UNCHANGED exited

\* Fatal: DefaultLogger.Error, then os.Exit(1)
FatalCall(c, msg) ==
    /\ Logged("Fatal", c, <<msg>>, <<>>, <<>>, log(logger, heap, ctxs, c, LevelError, msg))
    /\ exited' = TRUE

\* Fatalf: Fatal with the formatted message
FatalfCall(c, format, params) ==
    /\ Logged("Fatalf", c, format, params, <<>>,
              log(logger, heap, ctxs, c, LevelError, Sprintf(format, params)))
    /\ exited' = TRUE

---------------------------------------------------------------------------
(* Specifications *)

\* no writeBuffer
NoWriter == [made |-> FALSE, buffer |-> <<>>, prefix |-> <<>>]

\* no Printer was constructed
NoPrinter ==
    [impl |-> "none", prefix |-> <<>>, didDots |-> FALSE, lastLine |-> [set |-> FALSE, m |-> {}],
     panicked |-> FALSE]

Init ==
    /\ heap = <<>>
    /\ ctxs = <<Background>>
    /\ logger = NewCallbackLogger
    /\ added = <<>>
    /\ passed = 0
    /\ rendered = 0
    /\ last = Op("init", 1)
    /\ exited = FALSE
    /\ printer = NoPrinter
    /\ output = <<>>
    /\ stdout = <<>>
    /\ fed = <<>>
    /\ wbuf = NoWriter
    /\ stream = <<>>
    /\ sink = <<>>
    /\ pcs = <<>>
    /\ rpc = <<>>

\* the context store: contexts derived from Background, and log calls on them
Next ==
    \/ \E p \in DOMAIN ctxs, attrs \in AttrInputs :
          Len(ctxs) <= MaxCtx /\ WithAttrsCall(p, attrs)
    \/ \E p \in DOMAIN ctxs, args \in FieldsInputs :
          Len(ctxs) <= MaxCtx /\ WithFieldsCall(p, args)
    \/ \E p \in DOMAIN ctxs, err \in Errs :
          Len(ctxs) <= MaxCtx /\ WithErrorCall(p, err)
    \/ \E p \in DOMAIN ctxs, value \in Traces :
          Len(ctxs) <= MaxCtx /\ WithTraceCall(p, value)
    \/ \E op \in {"Debug", "Info"}, c \in DOMAIN ctxs, msg \in Msgs :
          passed < MaxEmit /\ LogCall(op, c, msg)

Spec == Init /\ [][Next]_vars

\* the merge alone: a chain of WithAttrs calls over every pair of lists
NextMerge ==
    \/ \E attrs \in AttrLists(MaxLen) :
          /\ Len(ctxs) <= 2
          /\ last.op # "Reattach"
          /\ WithAttrsCall(Len(ctxs), attrs)
    \/ ReattachCall

SpecMerge == Init /\ [][NextMerge]_vars

\* the logger alone: a fixed store of three contexts (no attributes; attributes;
\* attributes and a trace id), and every logger operation on them
InitLog ==
    LET f == WithFields(<<>>, <<Background>>, 1, <<Str("a"), Num("1")>>)
        nodes == <<Background, f.node>>
    IN  /\ heap = f.heap
        /\ ctxs = Append(nodes, WithTrace(nodes, 2, "t"))
        /\ logger = NewCallbackLogger
        /\ added = <<>>
        /\ passed = 0
        /\ rendered = 0
        /\ last = Op("init", 1)
        /\ exited = FALSE
        /\ printer = NoPrinter
        /\ output = <<>>
        /\ stdout = <<>>
        /\ fed = <<>>
        /\ wbuf = NoWriter
        /\ stream = <<>>
        /\ sink = <<>>
        /\ pcs = <<>>
        /\ rpc = <<>>

\* nothing runs once the process has exited
NextLog ==
    \/ \E level \in Levels : ~exited /\ SetLevelCall(level)
    \/ \E collector \in CollectorNames :
          ~exited /\ Len(added) < MaxAdd /\ AddCollectorCall(collector)
    \/ \E op \in {"Debug", "Info", "Warn", "Error"}, c \in DOMAIN ctxs, msg \in Msgs :
          ~exited /\ passed < MaxCalls /\ LogCall(op, c, msg)
    \/ \E op \in {"Debugf", "Infof", "Warnf", "Errorf"}, c \in DOMAIN ctxs,
          format \in Formats, params \in Params :
          ~exited /\ passed < MaxCalls /\ LogfCall(op, c, format, params)
    \/ \E op \in {"DebugContext", "InfoContext", "ErrorContext"}, c \in DOMAIN ctxs,
          msg \in Msgs, args \in SlogArgs :
          ~exited /\ passed < MaxCalls /\ SlogCall(op, c, msg, args)
    \/ \E c \in DOMAIN ctxs, msg \in Msgs : ~exited /\ FatalCall(c, msg)
    \/ \E c \in DOMAIN ctxs, format \in Formats, params \in Params :
          ~exited /\ FatalfCall(c, format, params)

SpecLog == InitLog /\ [][NextLog]_vars

---------------------------------------------------------------------------
(* The merge: C1, C2, C4, C5 *)

\* the contexts WithAttrs made
FieldNodes == {c \in DOMAIN ctxs : ctxs[c].key = "fields"}

\* whether the parent of c carried a list, that list, the list passed, the list stored
HadList(c) == FieldsSlice(ctxs, ctxs[c].parent).ok
Existing(c) == ListIn(heap, ctxs, ctxs[c].parent)
NewAttrs(c) == Elems(heap, ctxs[c].arg)
Merged(c) == Elems(heap, ctxs[c].slice)

\* the keys of a list in order of first occurrence, each once
RECURSIVE DistinctKeys(_)
DistinctKeys(list) ==
    IF list = <<>> THEN <<>>
    ELSE LET init == DistinctKeys(SubSeq(list, 1, Len(list) - 1))
             k == list[Len(list)].Key
         IN  IF k \in Range(init) THEN init ELSE Append(init, k)

\* C1: WithAttrs on a context that carries a list: for key-unique existing and
\* newAttrs, every key of existing is at the same index of the merged list, with the
\* value of newAttrs when newAttrs holds the key and its original value otherwise.
C1_ExistingKeysKeepPlace ==
    \A c \in FieldNodes :
        (HadList(c) /\ KeyUnique(Existing(c)) /\ KeyUnique(NewAttrs(c))) =>
            /\ Len(Merged(c)) >= Len(Existing(c))
            /\ \A i \in DOMAIN Existing(c) :
                   LET k == Existing(c)[i].Key IN
                   /\ Merged(c)[i].Key = k
                   /\ Merged(c)[i] = IF k \in KeysOf(NewAttrs(c))
                                     THEN NewAttrs(c)[IndexOf(NewAttrs(c), k)]
                                     ELSE Existing(c)[i]

\* a merge of key-unique lists that replaced the value of one key and kept another
C1_Witness ==
    \E c \in FieldNodes :
        /\ HadList(c) /\ KeyUnique(Existing(c)) /\ KeyUnique(NewAttrs(c))
        /\ \E i, j \in DOMAIN Existing(c) :
              /\ Existing(c)[i].Key \in KeysOf(NewAttrs(c))
              /\ Merged(c)[i] # Existing(c)[i]
              /\ Existing(c)[j].Key \notin KeysOf(NewAttrs(c))

C5_MergeIdentities ==
    \A c \in FieldNodes :
        /\ (HadList(c) /\ NewAttrs(c) = <<>>) => Merged(c) = Existing(c)
        /\ (~HadList(c) \/ Existing(c) = <<>>) => Merged(c) = NewAttrs(c)

\* a chain that attached a non-empty A to a context without a list and then the
\* empty list to the result
C5_Witness ==
    \E c \in FieldNodes :
        /\ HadList(c) /\ NewAttrs(c) = <<>> /\ Existing(c) # <<>>
        /\ \E p \in FieldNodes : p = ctxs[c].parent /\ ~HadList(p) /\ Len(Merged(p)) = 2

---------------------------------------------------------------------------
(* The context store: C3, C6, C7 *)

\* C3: no context reachable by WithAttrs / WithFields / WithField / WithError calls
\* carries a list with two elements of the same key. Stated for the contexts whose
\* calls each named every key at most once (the claim covers these and every other).
C3_ListsKeyUnique ==
    \A c \in DOMAIN ctxs : ctxs[c].clean => KeyUnique(ListIn(heap, ctxs, c))

RECURSIVE ChainFields(_)
ChainFields(c) ==
    IF c = 0 THEN <<>>
    ELSE LET old == ChainFields(ctxs[c].parent)
             new == ctxs[c].given
         IN  [i \in DOMAIN old |-> IF old[i].Key \in KeysOf(new)
                                   THEN new[IndexOf(new, old[i].Key)]
                                   ELSE old[i]]
             \o SelectSeq(new, LAMBDA a : a.Key \notin KeysOf(old))

\* C7: an entry logged with a context built by a chain of WithFields / WithAttrs
\* calls carries exactly one field per key attached along the chain, with the value
\* of the latest call that set it, in order of first attachment, and nothing else.
\* Stated for chains whose calls each named every key at most once and set no trace.
C7_LoggedFieldsAreTheChain ==
    (/\ last.op \in {"Debug", "Info"}
     /\ last.calls # <<>>
     /\ ctxs[last.ctx].clean
     /\ Value(ctxs, last.ctx, "trace") = 0)
        => last.calls[1].fields = ChainFields(last.ctx)

---------------------------------------------------------------------------
(* The logger: C8, C9, C10 *)

LogOps == {"Debug", "Info", "Warn", "Error", "Debugf", "Infof", "Warnf", "Errorf",
           "DebugContext", "InfoContext", "ErrorContext"}

\* the level name of each method
LevelName(op) ==
    CASE op \in {"Debug", "Debugf", "DebugContext"} -> "DEBUG"
      [] op \in {"Info", "Infof", "InfoContext"}    -> "INFO"
      [] op \in {"Warn", "Warnf"}                   -> "WARN"
      [] op \in {"Error", "Errorf", "ErrorContext"} -> "ERROR"

\* C8: a log call below the threshold invokes no collector and not the Callback.
C8_FilteredCallDoesNothing ==
    (last.op \in LogOps /\ last.level < last.threshold) =>
        /\ last.invoked = <<>>
        /\ last.calls = <<>>

\* a Warn call on a context with attributes, under a threshold of ERROR
C8_Witness ==
    /\ last.op = "Warn" /\ last.threshold = LevelError
    /\ ListIn(heap, ctxs, last.ctx) # <<>>

\* C9: a log call at or above the threshold hands exactly one entry to the Callback,
\* with the level name of the method and the (formatted) message; the number of
\* entries rendered is the number of calls that passed the filter; at threshold INFO
\* Debug renders nothing.
C9_OneEntryPerPassingCall ==
    /\ rendered = passed
    /\ (last.op \in LogOps /\ last.level >= last.threshold) =>
           /\ Len(last.calls) = 1
           /\ last.calls[1].level = LevelName(last.op)
           /\ last.calls[1].msg = Sprintf(last.fmt, last.params)
    /\ (last.op \in {"Debug", "Debugf"} /\ last.threshold = LevelInfo) => last.calls = <<>>

\* an Infof call rendered at threshold INFO with its formatted message, after other
\* rendered calls
C9_Witness ==
    /\ last.op = "Infof" /\ last.threshold = LevelInfo
    /\ last.calls # <<>> /\ last.calls[1].msg = "m x"
    /\ rendered >= 2

\* what the collectors of the list give for context c, one after the other
Collected(collectors, c) ==
    LET part(i) == LogFieldsFromContext(collectors[i], heap, ctxs, c)
        RECURSIVE upTo(_)
        upTo(i) == IF i = 0 THEN <<>> ELSE upTo(i - 1) \o part(i)
    IN  upTo(Len(collectors))

\* C10 as stated: the fields given to the Callback are the lists of the registered
\* collectors one after the other, in registration order (the constructor's two, then
\* the AddCollector calls in order), each collector invoked once.
C10_FieldsAreCollectorsInOrder ==
    (last.op \in LogOps /\ last.calls # <<>>) =>
        /\ last.collectors = <<"DefaultContext", "DefaultTrace">> \o added
        /\ last.invoked = last.collectors
        /\ last.calls[1].fields = Collected(last.collectors, last.ctx)

\* C10 amended: as stated, and a slog-style call (DebugContext, InfoContext,
\* ErrorContext) appends the attributes of its own arguments after them.
C10_FieldsAreCollectorsThenArgs ==
    (last.op \in LogOps /\ last.calls # <<>>) =>
        /\ last.collectors = <<"DefaultContext", "DefaultTrace">> \o added
        /\ last.invoked = last.collectors
        /\ last.calls[1].fields
               = Collected(last.collectors, last.ctx) \o recordAttrs(last.args)

\* DefaultContext registered a second time: its attribute is rendered twice, around
\* the trace id
C10_Witness ==
    /\ last.op = "Info" /\ last.calls # <<>>
    /\ added = <<"DefaultContext">>
    /\ Len(last.calls[1].fields) = 3
    /\ last.calls[1].fields[1] = last.calls[1].fields[3]
    /\ last.calls[1].fields[2].Key = "trace"

---------------------------------------------------------------------------
(* Fatal: C11 *)

FatalOps == {"Fatal", "Fatalf"}

\* C11 as stated: every Fatal or Fatalf call, whatever the threshold, hands one ERROR
\* entry with the (formatted) message to the Callback and ends the process.
C11_FatalAlwaysEmits ==
    last.op \in FatalOps =>
        /\ exited
        /\ Len(last.calls) = 1
        /\ last.calls[1].level = "ERROR"
        /\ last.calls[1].msg = Sprintf(last.fmt, last.params)

\* C11 amended: a Fatal or Fatalf call ends the process, and nothing runs after it;
\* it hands one ERROR entry to the Callback when the threshold is ERROR or lower, and
\* none, without invoking a collector, when the threshold is above ERROR.
C11_FatalEmitsUnlessFiltered ==
    /\ [](last.op \in FatalOps =>
            /\ exited
            /\ IF last.threshold <= LevelError
               THEN /\ Len(last.calls) = 1
                    /\ last.calls[1].level = "ERROR"
                    /\ last.calls[1].msg = Sprintf(last.fmt, last.params)
               ELSE last.calls = <<>> /\ last.invoked = <<>>)
    /\ [](exited => last.op \in FatalOps)
    /\ [][~exited]_vars

\* a Fatalf call that rendered its formatted message with the threshold at ERROR
C11_Witness ==
    /\ last.op = "Fatalf" /\ exited
    /\ last.threshold = LevelError
    /\ last.calls # <<>> /\ last.calls[1].msg = "m x"

---------------------------------------------------------------------------
(* The JSON renderer: jsonFormatter, attrMap.MarshalJSON, JSONLog *)

(***************************************************************************)
(* Text is a sequence of characters, each a one-character string; "xFF" is *)
(* a byte that is not valid UTF-8 and "uFFFD" the replacement rune.  In    *)
(* this part a Go string is such a sequence, so the [kind, s, m] records   *)
(* of string and integer values hold a sequence in s.                      *)
(***************************************************************************)

\* the concatenation of a sequence of texts
RECURSIVE Concat(_)
Concat(parts) == IF parts = <<>> THEN <<>> ELSE Head(parts) \o Concat(Tail(parts))

\* a value whose MarshalJSON returns an error (nojson in the tests)
NoJSON == [kind |-> "nojson", s |-> <<>>, m |-> {}]

\* a []int, each element one digit of s
Ints(s) == [kind |-> "ints", s |-> s, m |-> {}]

\* encoding/json on one character of a string
escapeChar(ch) ==
    CASE ch = "\"" -> <<"\\", "\"">>
      [] ch = "\\" -> <<"\\", "\\">>
      [] ch = "\n" -> <<"\\", "n">>
      [] ch = "xFF" -> <<"\\", "u", "f", "f", "f", "d">>
      [] OTHER -> <<ch>>

\* json.Marshal of a string: quoted, escaped, coerced to valid UTF-8
RECURSIVE escapeString(_)
escapeString(s) ==
    IF s = <<>> THEN <<>> ELSE escapeChar(Head(s)) \o escapeString(Tail(s))

\* a variant that quotes the string without escaping it
marshalStringRaw(s) == <<"\"">> \o s \o <<"\"">>

marshalString(s) == <<"\"">> \o escapeString(s) \o <<"\"">>

\* json.Marshal(kv.Value.Any()): the text, or an error
marshalAny(v) ==
    CASE v.kind = "string" -> [err |-> FALSE, b |-> marshalString(v.s)]
      [] v.kind = "int"    -> [err |-> FALSE, b |-> v.s]
      [] v.kind = "nil"    -> [err |-> FALSE, b |-> <<"n", "u", "l", "l">>]
      [] v.kind = "ints"   ->
            [err |-> FALSE,
             b |-> <<"[">> \o Concat([i \in DOMAIN v.s |->
                                        (IF i > 1 THEN <<",">> ELSE <<>>) \o <<v.s[i]>>])
                     \o <<"]">>]
      [] OTHER             -> [err |-> TRUE, b |-> <<>>]

\* attrMap.MarshalJSON: the loop over aa from element i on, buf holding what was
\* written so far
RECURSIVE marshalAttrs(_, _, _)
marshalAttrs(aa, i, buf) ==
    IF i > Len(aa) THEN [err |-> FALSE, b |-> buf \o <<"}">>]
    ELSE LET sep == IF i # 1 THEN <<",">> ELSE <<>>
             val == marshalAny(aa[i].Value)
         IN  IF val.err THEN [err |-> TRUE, b |-> <<>>]
             ELSE marshalAttrs(aa, i + 1,
                               buf \o sep \o marshalString(aa[i].Key) \o <<":">> \o val.b)

\* a variant that writes the members from the last element to the first
MarshalJSONReversed(aa) ==
    marshalAttrs([i \in DOMAIN aa |-> aa[Len(aa) + 1 - i]], 1, <<"{">>)

\* attrMap.MarshalJSON; a nil attrMap gives {} as an empty one does
MarshalJSON(aa) == marshalAttrs(aa, 1, <<"{">>)

\* the struct tags of logEntry
TagLevel == <<"l", "e", "v", "e", "l">>
TagTime == <<"t", "i", "m", "e">>
TagMessage == <<"m", "e", "s", "s", "a", "g", "e">>
TagFields == <<"f", "i", "e", "l", "d", "s">>

\* json.Marshal(entry) for a logEntry: the four members in the order of the struct
marshalEntry(entry) ==
    LET fields == MarshalJSON(entry.Fields)
    IN  IF fields.err THEN [err |-> TRUE, b |-> <<>>]
        ELSE [err |-> FALSE,
              b |-> Concat(<< <<"{">>,
                              marshalString(TagLevel), <<":">>, marshalString(entry.Level),
                              <<",">>, marshalString(TagTime), <<":">>, marshalString(entry.Time),
                              <<",">>, marshalString(TagMessage), <<":">>,
                              marshalString(entry.Message),
                              <<",">>, marshalString(TagFields), <<":">>, fields.b,
                              <<"}">> >>)]

\* a variant that writes what the failed attempt returned
jsonFormatterNoDegrade(entry) == << marshalEntry(entry).b \o <<"\n">> >>

\* jsonFormatter: the Write calls it makes on out
jsonFormatter(entry) ==
    LET first == marshalEntry(entry)
        logLine == IF first.err
                   THEN marshalEntry([entry EXCEPT !.Fields = <<>>]).b
                   ELSE first.b
    IN  << logLine \o <<"\n">> >>

\* the logEntry JSONLog builds; now is what time.Now() gave
logEntry(level, now, msg, attrs) ==
    [Level |-> level, Time |-> now, Message |-> msg, Fields |-> attrs]

---------------------------------------------------------------------------
(* json.Unmarshal into a map[string]any, for the grammar of objects,      *)
(* strings, unsigned integers and null, without white space               *)

Digits == {"0", "1", "2", "3", "4", "5", "6", "7", "8", "9"}

\* a parsed JSON value: m holds the members of an object, in the order of the text
JString(s) == [kind |-> "string", s |-> s, m |-> <<>>]
JNumber(s) == [kind |-> "number", s |-> s, m |-> <<>>]
JNull == [kind |-> "null", s |-> <<>>, m |-> <<>>]
JObject(members) == [kind |-> "object", s |-> <<>>, m |-> members]

\* a failed parse
SyntaxError == [ok |-> FALSE, v |-> JNull, i |-> 0]

\* the rest of a string literal from b[j] on, acc holding what was decoded
RECURSIVE scanString(_, _, _)
scanString(b, j, acc) ==
    IF j > Len(b) THEN SyntaxError
    ELSE CASE b[j] = "\"" -> [ok |-> TRUE, v |-> JString(acc), i |-> j + 1]
           [] b[j] = "\\" ->
                 IF j + 1 > Len(b) THEN SyntaxError
                 ELSE CASE b[j + 1] \in {"\"", "\\"} ->
                               scanString(b, j + 2, Append(acc, b[j + 1]))
                        [] b[j + 1] = "n" -> scanString(b, j + 2, Append(acc, "\n"))
                        [] b[j + 1] = "u" ->
                               IF /\ j + 5 <= Len(b)
                                  /\ SubSeq(b, j + 2, j + 5) = <<"f", "f", "f", "d">>
                               THEN scanString(b, j + 6, Append(acc, "uFFFD"))
                               ELSE SyntaxError
                        [] OTHER -> SyntaxError
           [] b[j] = "\n" -> SyntaxError
           [] b[j] = "xFF" -> scanString(b, j + 1, Append(acc, "uFFFD"))
           [] OTHER -> scanString(b, j + 1, Append(acc, b[j]))

\* the digits of a number from b[j] on
RECURSIVE scanNumber(_, _, _)
scanNumber(b, j, acc) ==
    IF j <= Len(b) /\ b[j] \in Digits
    THEN scanNumber(b, j + 1, Append(acc, b[j]))
    ELSE [ok |-> TRUE, v |-> JNumber(acc), i |-> j]

RECURSIVE parseValue(_, _)
RECURSIVE parseMembers(_, _, _)

\* the value of F at v, with v computed once
Bind(v, F(_)) == CHOOSE r \in {F(x) : x \in {v}} : TRUE

\* the members of an object from b[i] on, acc holding the members read
parseMembers(b, i, acc) ==
    IF i > Len(b) \/ b[i] # "\"" THEN SyntaxError
    ELSE Bind(scanString(b, i + 1, <<>>), LAMBDA key :
           IF ~key.ok \/ key.i > Len(b) \/ b[key.i] # ":" THEN SyntaxError
           ELSE Bind(parseValue(b, key.i + 1), LAMBDA val :
                  IF ~val.ok \/ val.i > Len(b) THEN SyntaxError
                  ELSE Bind(Append(acc, [Key |-> key.v.s, Value |-> val.v]), LAMBDA all :
                         CASE b[val.i] = "," -> parseMembers(b, val.i + 1, all)
                           [] b[val.i] = "}" ->
                                 [ok |-> TRUE, v |-> JObject(all), i |-> val.i + 1]
                           [] OTHER -> SyntaxError)))

\* an object: b[i] is its opening brace
parseObject(b, i) ==
    IF i + 1 <= Len(b) /\ b[i + 1] = "}"
    THEN [ok |-> TRUE, v |-> JObject(<<>>), i |-> i + 2]
    ELSE parseMembers(b, i + 1, <<>>)

parseValue(b, i) ==
    IF i > Len(b) THEN SyntaxError
    ELSE CASE b[i] = "\"" -> scanString(b, i + 1, <<>>)
           [] b[i] = "{" -> parseObject(b, i)
           [] b[i] \in Digits -> scanNumber(b, i, <<>>)
           [] b[i] = "n" ->
                 IF i + 3 <= Len(b) /\ SubSeq(b, i, i + 3) = <<"n", "u", "l", "l">>
                 THEN [ok |-> TRUE, v |-> JNull, i |-> i + 4]
                 ELSE SyntaxError
           [] OTHER -> SyntaxError

\* the text without the newlines that end it
RECURSIVE trimRight(_)
trimRight(b) ==
    IF b # <<>> /\ b[Len(b)] = "\n" THEN trimRight(SubSeq(b, 1, Len(b) - 1)) ELSE b

\* the syntax of a whole text that holds one JSON object
parseLine(b) ==
    LET t == trimRight(b)
        r == IF t # <<>> /\ t[1] = "{" THEN parseObject(t, 1) ELSE SyntaxError
    IN  IF r.ok /\ r.i = Len(t) + 1 THEN r ELSE SyntaxError

\* the Go value json.Unmarshal stores for a parsed value: a map[string]any keeps one
\* entry per key, the last of the text; m is the set of the entries of a map
RECURSIVE goValue(_)
goValue(v) ==
    CASE v.kind = "string" -> [kind |-> "string", s |-> v.s, m |-> {}]
      [] v.kind = "number" -> [kind |-> "float64", s |-> v.s, m |-> {}]
      [] v.kind = "null" -> [kind |-> "nil", s |-> <<>>, m |-> {}]
      [] v.kind = "object" ->
            [kind |-> "map", s |-> <<>>,
             m |-> {[Key |-> v.m[i].Key, Value |-> goValue(v.m[i].Value)] :
                       i \in {i \in DOMAIN v.m :
                                 \A j \in DOMAIN v.m : j > i => v.m[j].Key # v.m[i].Key}}]

\* json.Unmarshal(line, &fields) with fields a map[string]any: the error, and the map
Unmarshal(b) ==
    LET r == parseLine(b)
    IN  [err |-> ~r.ok, fields |-> IF r.ok THEN goValue(r.v).m ELSE {}]

---------------------------------------------------------------------------
(* The JSON renderer on its own: one JSONLog call on an empty buffer *)

\* the nil value, in this part
NilAny == [kind |-> "nil", s |-> <<>>, m |-> {}]

JsonLevels == { <<"I", "N", "F", "O">>, <<"E", "R", "R", "O", "R">> }
JsonTimes == { <<"T", "1">> }
\* messages: plain, with a quote, with a newline, with a backslash before an n
JsonMsgs == { <<"m">>, <<"a", "\"", "b">>, <<"a", "\n", "b">>, <<"a", "\\", "n">> }
\* attributes: a string and an integer under one key, a nil, a value that cannot be
\* encoded, and the zero attribute
JsonAttrs == { Attr(<<"b">>, Str(<<"v", "\"">>)), Attr(<<"a">>, Num(<<"1">>)),
               Attr(<<"a">>, Num(<<"2">>)), Attr(<<"k">>, NoJSON), Attr(<<>>, NilAny) }
JsonAttrLists == UNION {[1..k -> JsonAttrs] : k \in 0..MaxLen}

\* the closure JSONLog returns, called by the logger
JSONLogCall(level, now, msg, attrs) ==
    LET entry == logEntry(level, now, msg, attrs)
    IN  /\ output' = output \o jsonFormatter(entry)
        /\ last' = [op |-> "JSONLog", entry |-> entry]
        /\ UNCHANGED <<heap, ctxs, logger, added, passed, rendered, exited, printer, stdout, fed,
                     wbuf, stream, sink, pcs, rpc>>

InitJSON ==
    /\ heap = <<>>
    /\ ctxs = <<Background>>
    /\ logger = NewCallbackLogger
    /\ added = <<>>
    /\ passed = 0
    /\ rendered = 0
    /\ last = [op |-> "init", entry |-> logEntry(<<>>, <<>>, <<>>, <<>>)]
    /\ exited = FALSE
    /\ printer = NoPrinter
    /\ output = <<>>
    /\ stdout = <<>>
    /\ fed = <<>>
    /\ wbuf = NoWriter
    /\ stream = <<>>
    /\ sink = <<>>
    /\ pcs = <<>>
    /\ rpc = <<>>

NextJSON ==
    \E level \in JsonLevels, now \in JsonTimes, msg \in JsonMsgs, attrs \in JsonAttrLists :
        output = <<>> /\ JSONLogCall(level, now, msg, attrs)

SpecJSON == InitJSON /\ [][NextJSON]_vars

---------------------------------------------------------------------------
(* The JSON renderer: C12, C13, C14 *)

Encodable(attrs) == \A i \in DOMAIN attrs : attrs[i].Value.kind # "nojson"

\* the value of the member named key of a parsed object (the last one of that
\* name), JNull if there is none
Member(obj, key) ==
    LET at == {i \in DOMAIN obj.m : obj.m[i].Key = key}
    IN  IF at = {} THEN JNull
        ELSE obj.m[CHOOSE i \in at : \A j \in at : j <= i].Value

\* the JSON value an attribute value stands for
jsonOf(v) ==
    CASE v.kind = "string" -> JString(v.s)
      [] v.kind = "int" -> JNumber(v.s)
      [] OTHER -> JNull

\* the number of newline characters in a text
RECURSIVE Newlines(_)
Newlines(b) ==
    IF b = <<>> THEN 0 ELSE (IF Head(b) = "\n" THEN 1 ELSE 0) + Newlines(Tail(b))

\* C12: an entry with a value that cannot be encoded is still written as exactly one
\* line, in one write: valid JSON holding the entry's level, time and message and an
\* empty fields object, and nothing of the failed attempt.
C12_DegradesToLevelTimeMessage ==
    (last.op = "JSONLog" /\ ~Encodable(last.entry.Fields)) =>
        /\ Len(output) = 1
        /\ output[1][Len(output[1])] = "\n"
        /\ Newlines(output[1]) = 1
        /\ LET p == parseLine(output[1])
           IN  /\ p.ok
               /\ [i \in DOMAIN p.v.m |-> p.v.m[i].Key]
                     = <<TagLevel, TagTime, TagMessage, TagFields>>
               /\ Member(p.v, TagLevel) = JString(last.entry.Level)
               /\ Member(p.v, TagTime) = JString(last.entry.Time)
               /\ Member(p.v, TagMessage) = JString(last.entry.Message)
               /\ Member(p.v, TagFields) = JObject(<<>>)

\* an entry whose second attribute cannot be encoded, after one that can, and a
\* message with a newline in it
C12_Witness ==
    /\ last.op = "JSONLog" /\ output # <<>>
    /\ Len(last.entry.Fields) = 2
    /\ last.entry.Fields[1].Value.kind = "int"
    /\ last.entry.Fields[2].Value.kind = "nojson"
    /\ last.entry.Message = <<"a", "\n", "b">>

\* the members of the fields object of the line written, in the order of the text
WrittenFields == Member(parseLine(output[1]).v, TagFields).m

\* C13: the fields object has one member per element of the attribute list, in the
\* order of the list, whatever the keys.
C13_FieldsInListOrder ==
    (last.op = "JSONLog" /\ Encodable(last.entry.Fields)) =>
        /\ parseLine(output[1]).ok
        /\ WrittenFields = [i \in DOMAIN last.entry.Fields |->
                               [Key |-> last.entry.Fields[i].Key,
                                Value |-> jsonOf(last.entry.Fields[i].Value)]]

\* a list whose keys are not in alphabetical order
C13_Witness ==
    /\ last.op = "JSONLog" /\ output # <<>>
    /\ Len(last.entry.Fields) = 2
    /\ last.entry.Fields[1].Key = <<"b">>
    /\ last.entry.Fields[2].Key = <<"a">>


\* what json.Unmarshal stores for the line written
Unmarshalled == Unmarshal(output[1])

\* the entry of the map under key (the map holds at most one)
MapGet(entries, key) ==
    IF \E e \in entries : e.Key = key
    THEN (CHOOSE e \in entries : e.Key = key).Value
    ELSE NilAny

\* the Go value an attribute value comes back as
goOf(v) == goValue(jsonOf(v))

\* C14 as stated: parsing the line written for an entry with encodable values gives
\* back the level, the message and the fields: every key with its value, one field
\* per element of the list, in the order of the list.
C14_RoundTrip ==
    (last.op = "JSONLog" /\ Encodable(last.entry.Fields)) =>
        /\ ~Unmarshalled.err
        /\ MapGet(Unmarshalled.fields, TagLevel) = goValue(JString(last.entry.Level))
        /\ MapGet(Unmarshalled.fields, TagMessage) = goValue(JString(last.entry.Message))
        /\ LET got == MapGet(Unmarshalled.fields, TagFields)
           IN  /\ got.kind = "map"
               /\ got.m = {[Key |-> a.Key, Value |-> goOf(a.Value)] :
                              a \in Range(last.entry.Fields)}
               /\ Cardinality(got.m) = Len(last.entry.Fields)
        /\ [i \in DOMAIN WrittenFields |-> WrittenFields[i].Key]
              = [i \in DOMAIN last.entry.Fields |-> last.entry.Fields[i].Key]

\* C14 amended: the level and the message come back as they were; the members of
\* fields, read in the order of the text, are the keys of the list in list order;
\* the map json.Unmarshal builds holds, for each key, the value of the last element
\* with that key, so it has one field per element exactly when no key is repeated.
C14_RoundTripOfDistinctKeys ==
    (last.op = "JSONLog" /\ Encodable(last.entry.Fields)) =>
        /\ ~Unmarshalled.err
        /\ MapGet(Unmarshalled.fields, TagLevel) = goValue(JString(last.entry.Level))
        /\ MapGet(Unmarshalled.fields, TagMessage) = goValue(JString(last.entry.Message))
        /\ LET got == MapGet(Unmarshalled.fields, TagFields)
               list == last.entry.Fields
           IN  /\ got.kind = "map"
               /\ got.m = {[Key |-> list[i].Key, Value |-> goOf(list[i].Value)] :
                              i \in {i \in DOMAIN list :
                                        \A j \in DOMAIN list :
                                            j > i => list[j].Key # list[i].Key}}
               /\ (Cardinality(got.m) = Len(list)) <=> KeyUnique(list)
        /\ [i \in DOMAIN WrittenFields |-> WrittenFields[i].Key]
              = [i \in DOMAIN last.entry.Fields |-> last.entry.Fields[i].Key]

\* an entry with two distinct keys, a quote in a value and a backslash in the message
C14_Witness ==
    /\ last.op = "JSONLog" /\ output # <<>>
    /\ last.entry.Message = <<"a", "\\", "n">>
    /\ Len(last.entry.Fields) = 2
    /\ last.entry.Fields[1].Key = <<"b">>
    /\ last.entry.Fields[2].Key = <<"a">>

---------------------------------------------------------------------------
(* The line printers: Printer (pretty) and the loop of logcat's main *)

(***************************************************************************)
(* The state of either is a record [impl, prefix, didDots, lastLine,       *)
(* panicked]; lastLine is [set, m]: set is FALSE for a nil map and m is    *)
(* the set of the entries.  A call gives [p, wrote]: the state it leaves   *)
(* and the writes it made, each on "output" (the Printer's io.Writer) or   *)
(* on "stdout".  Where the code ranges over a map the order is not fixed,  *)
(* so a call gives the set of its possible outcomes.                       *)
(***************************************************************************)

\* lines the printers are given
\* an entry as the JSON renderer writes it, at time now
OwnLine(now) ==
    marshalEntry(logEntry(<<"I", "N", "F", "O">>, now, <<"m">>,
                          <<Attr(<<"a">>, Num(<<"1">>))>>)).b
\* {"level":"warn","message":"retry","fields":{"n":1}}
WarnLine ==
    Concat(<< <<"{">>, marshalString(TagLevel), <<":">>, marshalString(<<"w", "a", "r", "n">>),
              <<",">>, marshalString(TagMessage), <<":">>,
              marshalString(<<"r", "e", "t", "r", "y">>),
              <<",">>, marshalString(TagFields), <<":">>,
              <<"{">>, marshalString(<<"n">>), <<":">>, <<"1">>, <<"}">>, <<"}">> >>)
\* {"a":1,"b":2}
OtherLine ==
    Concat(<< <<"{">>, marshalString(<<"a">>), <<":">>, <<"1">>, <<",">>,
              marshalString(<<"b">>), <<":">>, <<"2">>, <<"}">> >>)
EmptyObjectLine == <<"{", "}">>
BadLine == <<"{", "x">>
TextLine == <<"s", "t", "a", "r", "t">>
NamePrefix == <<"s", "v", "c">>

\* the payloads, and the (prefix, payload) pairs given to the printers
Payloads == {OwnLine(<<"T", "1">>), OwnLine(<<"T", "2">>), WarnLine, OtherLine,
             EmptyObjectLine, BadLine, TextLine, <<>>}
PrefixedPayloads == {OwnLine(<<"T", "1">>), BadLine, TextLine, <<>>}
LineInputs ==
    {[prefix |-> <<>>, payload |-> b] : b \in Payloads}
        \cup {[prefix |-> NamePrefix, payload |-> b] : b \in PrefixedPayloads}

\* json.Unmarshal of the lines of the model, computed once
ParsedPayloads == [b \in Payloads |-> Unmarshal(b)]

\* json.Unmarshal([]byte(line), &fields)
UnmarshalLine(b) == IF b \in DOMAIN ParsedPayloads THEN ParsedPayloads[b] ELSE Unmarshal(b)

\* texts of the code
Separator == <<"=", "=", "=", "=", "=", "=", "=", "=", "\n">>
InvalidMarker == <<"<", "i", "n", "v", "a", "l", "i", "d", " ", "J", "S", "O", "N", ">", " ">>
Delimiter == <<" ", "|", " ">>
LogCatBegin == <<"L", "o", "g", "C", "a", "t", " ", "B", "e", "g", "i", "n", "\n">>

\* one Write, Fprintf or Printf call
W(to, b) == [to |-> to, b |-> b]

Upper == <<"A", "B", "C", "D", "E", "F", "G", "H", "I", "J", "K", "L", "M", "N", "O", "P", "Q",
           "R", "S", "T", "U", "V", "W", "X", "Y", "Z">>
Lower == <<"a", "b", "c", "d", "e", "f", "g", "h", "i", "j", "k", "l", "m", "n", "o", "p", "q",
           "r", "s", "t", "u", "v", "w", "x", "y", "z">>

\* strings.ToLower
ToLower(s) ==
    [i \in DOMAIN s |-> IF \E k \in DOMAIN Upper : Upper[k] = s[i]
                        THEN Lower[CHOOSE k \in DOMAIN Upper : Upper[k] = s[i]]
                        ELSE s[i]]

\* levelColors, and color.FgWhite for a level it does not hold; the escape sequence
\* that selects the colour stands for the colour
levelColors(name) ==
    CASE name = <<"d", "e", "b", "u", "g">> -> "ESC[34m"
      [] name = <<"i", "n", "f", "o">>      -> "ESC[32m"
      [] name = <<"w", "a", "r", "n">>      -> "ESC[33m"
      [] name = <<"e", "r", "r", "o", "r">> -> "ESC[31m"
      [] OTHER                              -> "ESC[37m"

\* upper case, the inverse of ToLower
ToUpper(s) ==
    [i \in DOMAIN s |-> IF \E k \in DOMAIN Lower : Lower[k] = s[i]
                        THEN Upper[CHOOSE k \in DOMAIN Lower : Lower[k] = s[i]]
                        ELSE s[i]]

\* a variant that shows the level in upper case
levelColorUpper(level) == <<levelColors(ToLower(level))>> \o ToUpper(level) \o <<"ESC[0m">>

\* color.New(whichColor).SprintFunc() applied to the level
levelColor(level) == <<levelColors(ToLower(level))>> \o level \o <<"ESC[0m">>

\* a value as the attribute lines show it: %v for a string or a float64, and
\* json.MarshalIndent for the rest, null for nil; "{..}" stands for the indented text
\* of a map
formatValue(v) ==
    CASE v.kind \in {"string", "float64"} -> v.s
      [] v.kind = "nil" -> <<"n", "u", "l", "l">>
      [] OTHER -> <<"{..}">>

\* the line written for one attribute
attrLine(a) == <<"|", " ">> \o a.Key \o <<":", " ">> \o formatValue(a.Value) \o <<"\n">>

\* the orders a range over a map with these entries can take
Perms(entries) ==
    {f \in [1..Cardinality(entries) -> entries] : \A e \in entries : \E i \in DOMAIN f : f[i] = e}

\* map[string]any{} and reflect.DeepEqual(fields, lastLine), fields never being nil
EmptyMap == [set |-> TRUE, m |-> {}]
DeepEqual(fields, lastLine) == lastLine.set /\ lastLine.m = fields

\* the entry of a map under key, nil when there is none
MapValue(entries, key) ==
    IF \E e \in entries : e.Key = key
    THEN (CHOOSE e \in entries : e.Key = key).Value
    ELSE NilAny

\* a variant that keeps the time
deleteNothing(fields) == fields

\* delete(fields, "time")
deleteTime(fields) == {e \in fields : e.Key # TagTime}

\* hasLevel && hasMessage && hasFields && len(fields) == 3
isStandard(fields) ==
    /\ MapValue(fields, TagLevel).kind = "string"
    /\ MapValue(fields, TagMessage).kind = "string"
    /\ MapValue(fields, TagFields).kind = "map"
    /\ Cardinality(fields) = 3

\* an index or slice expression out of range
Panic(p) == [p |-> [p EXCEPT !.panicked = TRUE], wrote |-> <<>>]

\* a variant of writef that does not look at didDots
writefNoFlush(p, namePrefix, line) ==
    LET name == IF p.prefix # <<>> THEN p.prefix \o <<" ">> \o namePrefix ELSE namePrefix
        text == IF name # <<>> THEN name \o <<":", " ">> \o line \o <<"\n">>
                ELSE line \o <<"\n">>
    IN  [p |-> p, wrote |-> << W("output", Separator), W("output", text) >>]

\* Printer.writef, line being the text after formatting
writef(p, namePrefix, line) ==
    LET nl == IF p.didDots THEN << W("output", <<"\n">>) >> ELSE <<>>
        name == IF p.prefix # <<>> THEN p.prefix \o <<" ">> \o namePrefix ELSE namePrefix
        text == IF name # <<>> THEN name \o <<":", " ">> \o line \o <<"\n">>
                ELSE line \o <<"\n">>
    IN  [p |-> [p EXCEPT !.didDots = FALSE],
         wrote |-> nl \o << W("output", Separator), W("output", text) >>]

\* Printer.PrintStandardLine, attrs in the order the caller built them
PrintStandardLine(p, namePrefix, level, message, attrs) ==
    LET r == writef(p, namePrefix, levelColor(level) \o <<":", " ">> \o message)
    IN  [p |-> r.p,
         wrote |-> r.wrote \o [i \in DOMAIN attrs |-> W("output", attrLine(attrs[i]))]]

\* Printer.PrintRawLine: the outcomes of one call
PrintRawLine(p, namePrefix, line) ==
    IF line = <<>> THEN {Panic(p)}
    ELSE IF line[1] # "{"
    THEN {writef([p EXCEPT !.didDots = FALSE, !.lastLine = EmptyMap], namePrefix, line)}
    ELSE LET u == UnmarshalLine(line)
             fields == deleteTime(u.fields)
         IN  IF u.err THEN {writef(p, namePrefix, InvalidMarker \o line)}
             ELSE IF DeepEqual(fields, p.lastLine)
             THEN {[p |-> [p EXCEPT !.didDots = TRUE], wrote |-> << W("output", <<".">>) >>]}
             ELSE LET nl == IF p.didDots THEN << W("stdout", <<"\n">>) >> ELSE <<>>
                      q == [p EXCEPT !.lastLine = [set |-> TRUE, m |-> fields],
                                     !.didDots = FALSE]
                  IN  IF isStandard(fields)
                      THEN {LET r == PrintStandardLine(q, namePrefix,
                                                       MapValue(fields, TagLevel).s,
                                                       MapValue(fields, TagMessage).s, order)
                            IN  [p |-> r.p, wrote |-> nl \o r.wrote] :
                               order \in Perms(MapValue(fields, TagFields).m)}
                      ELSE {LET r == writef(q, namePrefix, line)
                            IN  [p |-> r.p, wrote |-> nl \o r.wrote]}

\* strings.Cut(line, " | ")
Cut(line) ==
    LET at == {i \in 1..(Len(line) - 2) : SubSeq(line, i, i + 2) = Delimiter}
    IN  IF at = {} THEN [found |-> FALSE, before |-> line, after |-> <<>>]
        ELSE LET i == CHOOSE i \in at : \A j \in at : i <= j
             IN  [found |-> TRUE, before |-> SubSeq(line, 1, i - 1),
                  after |-> SubSeq(line, i + 3, Len(line))]

\* the body of the scanner loop of logcat's main for one line: its outcomes
logcatLine(p, line) ==
    IF Len(line) < 1 THEN {[p |-> p, wrote |-> <<>>]}
    ELSE LET c == Cut(line)
             after == IF c.found THEN c.after ELSE c.before
         IN  IF after = <<>> THEN {Panic(p)}
             ELSE IF after[1] # "{"
             THEN {[p |-> [p EXCEPT !.didDots = FALSE, !.lastLine = EmptyMap],
                    wrote |-> (IF p.didDots THEN << W("stdout", <<"\n">>) >> ELSE <<>>)
                              \o << W("stdout", line \o <<"\n">>) >>]}
             ELSE LET pre == IF c.found THEN << W("stdout", c.before \o <<"\n">>) >> ELSE <<>>
                      u == UnmarshalLine(after)
                      fields == deleteTime(u.fields)
                  IN  IF u.err
                      THEN {[p |-> p,
                             wrote |-> pre \o << W("stdout", InvalidMarker \o line \o <<"\n">>) >>]}
                      ELSE IF DeepEqual(fields, p.lastLine)
                      THEN {[p |-> [p EXCEPT !.didDots = TRUE],
                             wrote |-> pre \o << W("stdout", <<".">>) >>]}
                      ELSE LET nl == IF p.didDots THEN << W("stdout", <<"\n">>) >> ELSE <<>>
                               q == [p EXCEPT !.lastLine = [set |-> TRUE, m |-> fields],
                                              !.didDots = FALSE]
                               std == isStandard(fields)
                               header ==
                                   IF std
                                   THEN << W("stdout",
                                             levelColor(MapValue(fields, TagLevel).s)
                                             \o <<":", " ">>
                                             \o MapValue(fields, TagMessage).s \o <<"\n">>) >>
                                   ELSE <<>>
                               shown == IF std THEN MapValue(fields, TagFields).m ELSE fields
                           IN  {[p |-> q,
                                 wrote |-> pre \o nl \o header
                                           \o [i \in DOMAIN order |->
                                                  W("stdout", attrLine(order[i]))]] :
                                   order \in Perms(shown)}

---------------------------------------------------------------------------
(* The line printers on their input *)

\* the line logcat reads for a (prefix, payload) pair
LineOf(in) == IF in.prefix = <<>> THEN in.payload ELSE in.prefix \o Delimiter \o in.payload

\* what a call that had outcome r leaves
Fed(op, in, r) ==
    /\ printer' = r.p
    /\ output' = output \o SelectSeq(r.wrote, LAMBDA w : w.to = "output")
    /\ stdout' = stdout \o SelectSeq(r.wrote, LAMBDA w : w.to = "stdout")
    /\ fed' = Append(fed, [in |-> in, pre |-> printer, post |-> r.p, wrote |-> r.wrote])
    /\ last' = [op |-> op]
    /\ UNCHANGED <<heap, ctxs, logger, added, passed, rendered, exited, sink, pcs, rpc>>

\* a line arrives at the Printer, through WriterInterceptor(prefix) or directly
PrintRawLineCall(in) ==
    /\ printer.impl = "Printer"
    /\ ~printer.panicked
    /\ \E r \in PrintRawLine(printer, in.prefix, in.payload) : Fed("PrintRawLine", in, r)
    /\ UNCHANGED <<wbuf, stream>>

\* logcat's scanner gives a line to the loop
LogcatLineCall(in) ==
    /\ printer.impl = "main"
    /\ ~printer.panicked
    /\ \E r \in logcatLine(printer, LineOf(in)) : Fed("logcat", in, r)
    /\ UNCHANGED <<wbuf, stream>>

\* NewPrinter(output, opts...) with output not the standard output
NewPrinter(prefix) ==
    [impl |-> "Printer", prefix |-> prefix, didDots |-> FALSE,
     lastLine |-> [set |-> FALSE, m |-> {}], panicked |-> FALSE]

\* the locals of logcat's main before its loop
LogcatStart ==
    [impl |-> "main", prefix |-> <<>>, didDots |-> FALSE, lastLine |-> EmptyMap,
     panicked |-> FALSE]

\* a Printer without a prefix of its own, or logcat after its first Printf
InitCompact ==
    /\ heap = <<>>
    /\ ctxs = <<Background>>
    /\ logger = NewCallbackLogger
    /\ added = <<>>
    /\ passed = 0
    /\ rendered = 0
    /\ last = [op |-> "init"]
    /\ exited = FALSE
    /\ printer \in {NewPrinter(<<>>), LogcatStart}
    /\ output = <<>>
    /\ stdout = IF printer.impl = "main" THEN << W("stdout", LogCatBegin) >> ELSE <<>>
    /\ fed = <<>>
    /\ wbuf = NoWriter
    /\ stream = <<>>
    /\ sink = <<>>
    /\ pcs = <<>>
    /\ rpc = <<>>

NextCompact ==
    \/ \E in \in LineInputs : Len(fed) < MaxLines /\ PrintRawLineCall(in)
    \/ \E in \in LineInputs : Len(fed) < MaxLines /\ LogcatLineCall(in)

SpecCompact == InitCompact /\ [][NextCompact]_vars

---------------------------------------------------------------------------
(* The line printers: C15 .. C20 *)

\* the stream a printer renders on: the Printer's io.Writer, logcat's standard output
OutTo == IF printer.impl = "Printer" THEN "output" ELSE "stdout"
OtherStream == IF printer.impl = "Printer" THEN "stdout" ELSE "output"

\* the text the call recorded in f wrote on a stream
TextOn(f, to) ==
    LET ws == SelectSeq(f.wrote, LAMBDA w : w.to = to)
    IN  Concat([i \in DOMAIN ws |-> ws[i].b])

\* the kinds of line: free text, and a payload that begins with a brace, which is a
\* JSON object or invalid
IsText(f) == f.in.payload # <<>> /\ f.in.payload[1] # "{"
LooksJSON(f) == f.in.payload # <<>> /\ f.in.payload[1] = "{"
IsObject(f) == LooksJSON(f) /\ ~UnmarshalLine(f.in.payload).err
IsInvalid(f) == LooksJSON(f) /\ UnmarshalLine(f.in.payload).err

\* the object of a line without its time member
ObjectOf(f) == {e \in UnmarshalLine(f.in.payload).fields : e.Key # TagTime}

\* the object equals the snapshot the printer held when the line arrived
IsRepeat(f) == IsObject(f) /\ f.pre.lastLine.set /\ f.pre.lastLine.m = ObjectOf(f)

\* the call wrote markers, or something that is no marker
WroteMarker(f) == \E i \in DOMAIN f.wrote : f.wrote[i].b = <<".">>
WroteBlock(f) == \E i \in DOMAIN f.wrote : Len(f.wrote[i].b) > 1

\* lines i..j are JSON objects equal without their time, line i starts the run (the
\* line before it is no JSON object equal to it), and line j + 1 is a different object
IsRun(i, j) ==
    /\ i <= j /\ j + 1 <= Len(fed)
    /\ \A l \in i..(j + 1) : IsObject(fed[l])
    /\ \A l \in i..j : ObjectOf(fed[l]) = ObjectOf(fed[i])
    /\ ObjectOf(fed[j + 1]) # ObjectOf(fed[i])
    /\ i > 1 => ~(IsObject(fed[i - 1]) /\ ObjectOf(fed[i - 1]) = ObjectOf(fed[i]))

\* C15 as stated: for k equal JSON lines followed by a different one, the output is a
\* block for the first, then one marker and nothing else for each of the k - 1 next,
\* then a block for the different line.
C15_RunIsBlockMarkersBlock ==
    \A i, j \in DOMAIN fed :
        IsRun(i, j) =>
            /\ WroteBlock(fed[i]) /\ ~WroteMarker(fed[i])
            /\ \A l \in (i + 1)..j : fed[l].wrote = << W(OutTo, <<".">>) >>
            /\ WroteBlock(fed[j + 1]) /\ ~WroteMarker(fed[j + 1])

\* a line logcat splits at the delimiter
HasPrefixPart(f) == printer.impl = "main" /\ f.in.prefix # <<>>

\* the runs for which the statement of C15 does hold: those whose first line differs
\* from the snapshot held when it arrives (empty at the start of logcat and after a
\* free-text line, and not reset by an invalid line) and, in logcat, whose lines have
\* no prefix part; the block of an object without members is empty in logcat.
C15_RunAfterDifferentSnapshot ==
    \A i, j \in DOMAIN fed :
        (/\ IsRun(i, j)
         /\ ~IsRepeat(fed[i])
         /\ \A l \in i..(j + 1) : ~HasPrefixPart(fed[l])) =>
            /\ ~WroteMarker(fed[i])
            /\ \A l \in (i + 1)..j : fed[l].wrote = << W(OutTo, <<".">>) >>
            /\ ~WroteMarker(fed[j + 1])
            /\ \A l \in {i, j + 1} :
                  WroteBlock(fed[l]) <=> ~(printer.impl = "main" /\ ObjectOf(fed[l]) = {})

\* three lines equal but for their time, then the warn line, with either printer
C15_Witness ==
    /\ Len(fed) = 4
    /\ IsRun(1, 3)
    /\ fed[1].in.payload # fed[2].in.payload
    /\ fed[4].in.payload = WarnLine
    /\ WroteBlock(fed[4])

\* the object differs from the snapshot the printer held
IsDifferent(f) == IsObject(f) /\ ~IsRepeat(f)

\* C16: when a JSON line that differs from the snapshot ends a marker run, the first
\* thing written on the printer's output stream is a newline.
C16_NewlineEndsMarkerRun ==
    \A i \in DOMAIN fed :
        (IsDifferent(fed[i]) /\ fed[i].pre.didDots) =>
            /\ TextOn(fed[i], OutTo) # <<>>
            /\ TextOn(fed[i], OutTo)[1] = "\n"

\* the text a free-text line is printed as: the Printer puts the name before it,
\* logcat prints the line it read
Verbatim(f) ==
    IF printer.impl = "Printer"
    THEN (IF f.in.prefix # <<>> THEN f.in.prefix \o <<":", " ">> ELSE <<>>)
         \o f.in.payload \o <<"\n">>
    ELSE LineOf(f.in) \o <<"\n">>

\* the line of eight equals signs the Printer writes before each block
Frame == IF printer.impl = "Printer" THEN Separator ELSE <<>>

\* C17: a free-text line is printed verbatim with its prefix, after a newline when a
\* marker run is active, and leaves no marker run and an empty snapshot.
C17_TextLineFlushesAndResets ==
    \A i \in DOMAIN fed :
        IsText(fed[i]) =>
            /\ TextOn(fed[i], OutTo)
                  = (IF fed[i].pre.didDots THEN <<"\n">> ELSE <<>>) \o Frame \o Verbatim(fed[i])
            /\ ~fed[i].post.didDots
            /\ fed[i].post.lastLine = EmptyMap

\* C18: a JSON line equal to the snapshot writes one marker and nothing else, with or
\* without a prefix part, and leaves a marker run active.
C18_RepeatWritesOneMarker ==
    \A i \in DOMAIN fed :
        IsRepeat(fed[i]) =>
            /\ fed[i].wrote = << W(OutTo, <<".">>) >>
            /\ fed[i].post.didDots


\* what precedes the text of a line: the name the Printer puts before it, and the
\* line logcat prints for the prefix part
NameOf(f) == IF f.in.prefix # <<>> THEN f.in.prefix \o <<":", " ">> ELSE <<>>
PrefixLine(f) == IF f.in.prefix # <<>> THEN f.in.prefix \o <<"\n">> ELSE <<>>

Plain(t) ==
    SelectSeq(t, LAMBDA ch : ch \notin {"ESC[34m", "ESC[32m", "ESC[33m", "ESC[31m", "ESC[37m",
                                        "ESC[0m"})

\* what a printer writes before the block of a JSON line
Lead(f) ==
    IF printer.impl = "Printer" THEN Separator \o NameOf(f)
    ELSE PrefixLine(f) \o (IF f.pre.didDots THEN <<"\n">> ELSE <<>>)

\* the block of the line: what was written on the output stream after the lead
BlockOf(f) ==
    LET t == TextOn(f, OutTo)
    IN  IF Len(t) >= Len(Lead(f)) /\ SubSeq(t, 1, Len(Lead(f))) = Lead(f)
        THEN SubSeq(t, Len(Lead(f)) + 1, Len(t))
        ELSE <<"no lead">>

\* the attribute lines for the entries of a map, in every order
AttrLines(entries) ==
    {Concat([i \in DOMAIN order |-> attrLine(order[i])]) : order \in Perms(entries)}

\* C20 as stated: a JSON line that differs from the snapshot and has exactly level,
\* message and fields is written as the header LEVEL: message, the level in upper
\* case, and one line per inner field; every other object is printed as received.
C20_PrettyOrVerbatim ==
    \A i \in DOMAIN fed :
        IsDifferent(fed[i]) =>
            LET obj == ObjectOf(fed[i])
            IN  IF isStandard(obj)
                THEN \E lines \in AttrLines(MapValue(obj, TagFields).m) :
                        Plain(BlockOf(fed[i]))
                           = ToUpper(MapValue(obj, TagLevel).s) \o <<":", " ">>
                             \o MapValue(obj, TagMessage).s \o <<"\n">> \o lines
                ELSE BlockOf(fed[i]) = fed[i].in.payload \o <<"\n">>

\* C20 amended: the header shows the level as it was received, in the colour of the
\* level; an object that is not of that form is printed as received by the Printer,
\* and by logcat as one line per member of the object, time excepted, without header.
C20_PrettyAsReceived ==
    \A i \in DOMAIN fed :
        IsDifferent(fed[i]) =>
            LET obj == ObjectOf(fed[i])
            IN  IF isStandard(obj)
                THEN \E lines \in AttrLines(MapValue(obj, TagFields).m) :
                        BlockOf(fed[i])
                           = <<levelColors(ToLower(MapValue(obj, TagLevel).s))>>
                             \o MapValue(obj, TagLevel).s \o <<"ESC[0m">> \o <<":", " ">>
                             \o MapValue(obj, TagMessage).s \o <<"\n">> \o lines
                ELSE IF printer.impl = "Printer"
                     THEN BlockOf(fed[i]) = fed[i].in.payload \o <<"\n">>
                     ELSE BlockOf(fed[i]) \in AttrLines(obj)

\* the warn line rendered as warn: retry and | n: 1, and an object of another form
C20_Witness ==
    \E i, j \in DOMAIN fed :
        /\ fed[i].in.payload = WarnLine /\ IsDifferent(fed[i])
        /\ Plain(BlockOf(fed[i]))
              = <<"w", "a", "r", "n", ":", " ", "r", "e", "t", "r", "y", "\n",
                  "|", " ", "n", ":", " ", "1", "\n">>
        /\ fed[j].in.payload = OtherLine /\ IsDifferent(fed[j])


---------------------------------------------------------------------------
(* The byte-stream adapter: writeBuffer *)

\* strings.Split(b, "\n"): the parts between the newlines, one more than the newlines
RECURSIVE splitFrom(_, _, _)
splitFrom(b, i, part) ==
    IF i > Len(b) THEN <<part>>
    ELSE IF b[i] = "\n" THEN <<part>> \o splitFrom(b, i + 1, <<>>)
    ELSE splitFrom(b, i + 1, Append(part, b[i]))

Split(b) == splitFrom(b, 1, <<>>)

\* strings.Contains(b, "\n")
Contains(b) == \E i \in DOMAIN b : b[i] = "\n"

\* the loop of Write over the lines: the outcomes [p, calls], calls holding one record
\* per PrintRawLine call
RECURSIVE printLines(_, _, _, _)
printLines(p, prefix, lines, calls) ==
    IF lines = <<>> THEN {[p |-> p, calls |-> calls]}
    ELSE IF Head(lines) = <<>> THEN printLines(p, prefix, Tail(lines), calls)
    ELSE UNION {printLines(r.p, prefix, Tail(lines),
                           Append(calls, [in |-> [prefix |-> prefix, payload |-> Head(lines)],
                                          pre |-> p, post |-> r.p, wrote |-> r.wrote])) :
                   r \in PrintRawLine(p, prefix, Head(lines))}

\* a variant of Write that keeps the whole buffer after it printed the lines
WriteKeepsBuffer(wb, p, data) ==
    LET buffer == wb.buffer \o data
    IN  IF Contains(buffer)
        THEN LET lines == Split(buffer)
             IN  {[wb |-> [wb EXCEPT !.buffer = buffer], p |-> r.p, calls |-> r.calls] :
                     r \in printLines(p, wb.prefix, SubSeq(lines, 1, Len(lines) - 1), <<>>)}
        ELSE {[wb |-> [wb EXCEPT !.buffer = buffer], p |-> p, calls |-> <<>>]}

\* writeBuffer.Write: the outcomes [wb, p, calls] of one call
Write(wb, p, data) ==
    LET buffer == wb.buffer \o data
    IN  IF Contains(buffer)
        THEN LET lines == Split(buffer)
             IN  {[wb |-> [wb EXCEPT !.buffer = lines[Len(lines)]], p |-> r.p,
                   calls |-> r.calls] :
                     r \in printLines(p, wb.prefix, SubSeq(lines, 1, Len(lines) - 1), <<>>)}
        ELSE {[wb |-> [wb EXCEPT !.buffer = buffer], p |-> p, calls |-> <<>>]}

\* Printer.WriterInterceptor(prefix)
WriterInterceptor(prefix) == [made |-> TRUE, buffer |-> <<>>, prefix |-> prefix]

\* the writes of a sequence of calls, in order
RECURSIVE WritesOf(_)
WritesOf(calls) == IF calls = <<>> THEN <<>> ELSE Head(calls).wrote \o WritesOf(Tail(calls))

\* the data of the Write calls: the pieces a byte stream arrives in
MaxWrites == 4
Chunks == { <<>>, <<"\n">>, <<"a">>, <<"{">>, <<"}">>, <<"a", "\n">>, <<"\n", "b">>,
            <<"\n", "\n">>, <<"{", "}", "\n">>, <<"}", "\n", "{">> }

\* a Write call on the writeBuffer
WriteCall(data) ==
    /\ wbuf.made
    /\ Len(stream) < MaxWrites
    /\ \E r \in Write(wbuf, printer, data) :
          /\ wbuf' = r.wb
          /\ printer' = r.p
          /\ fed' = fed \o r.calls
          /\ output' = output \o SelectSeq(WritesOf(r.calls), LAMBDA w : w.to = "output")
          /\ stdout' = stdout \o SelectSeq(WritesOf(r.calls), LAMBDA w : w.to = "stdout")
    /\ stream' = Append(stream, data)
    /\ last' = [op |-> "Write"]
    /\ UNCHANGED <<heap, ctxs, logger, added, passed, rendered, exited, sink, pcs, rpc>>

\* a Printer and the writeBuffer WriterInterceptor gives for it
InitWrite ==
    /\ heap = <<>>
    /\ ctxs = <<Background>>
    /\ logger = NewCallbackLogger
    /\ added = <<>>
    /\ passed = 0
    /\ rendered = 0
    /\ last = [op |-> "init"]
    /\ exited = FALSE
    /\ printer = NewPrinter(<<>>)
    /\ output = <<>>
    /\ stdout = <<>>
    /\ fed = <<>>
    /\ wbuf \in {WriterInterceptor(<<>>), WriterInterceptor(NamePrefix)}
    /\ stream = <<>>
    /\ sink = <<>>
    /\ pcs = <<>>
    /\ rpc = <<>>

NextWrite == \E data \in Chunks : WriteCall(data)

SpecWrite == InitWrite /\ [][NextWrite]_vars

\* the bytes written so far, as one stream
Stream == Concat(stream)

\* the positions of the newlines of b
NewlinesAt(b) == {i \in DOMAIN b : b[i] = "\n"}

\* the newline-terminated lines of b that are not empty, in the order of b
RECURSIVE TerminatedLines(_, _)
TerminatedLines(b, from) ==
    IF \A i \in NewlinesAt(b) : i < from THEN <<>>
    ELSE LET nl == CHOOSE i \in NewlinesAt(b) :
                       i >= from /\ \A j \in NewlinesAt(b) : j >= from => i <= j
         IN  (IF nl > from THEN << SubSeq(b, from, nl - 1) >> ELSE <<>>)
                 \o TerminatedLines(b, nl + 1)

\* the bytes of b after its last newline
Unterminated(b) ==
    IF NewlinesAt(b) = {} THEN b
    ELSE SubSeq(b, (CHOOSE i \in NewlinesAt(b) : \A j \in NewlinesAt(b) : j <= i) + 1, Len(b))

\* C21: whatever the pieces the stream is written in, the lines given to PrintRawLine
\* are the newline-terminated lines of the whole stream that are not empty, in order and
\* once each, with the prefix of the writeBuffer; the buffer holds the bytes after the
\* last newline, none of them a newline, and these were not given to PrintRawLine
C21_LinesAreTheTerminatedLines ==
    wbuf.made =>
        /\ [i \in DOMAIN fed |-> fed[i].in.payload] = TerminatedLines(Stream, 1)
        /\ \A i \in DOMAIN fed : fed[i].in.prefix = wbuf.prefix
        /\ wbuf.buffer = Unterminated(Stream)
        /\ NewlinesAt(wbuf.buffer) = {}
        /\ Len(Concat([i \in DOMAIN fed |-> fed[i].in.payload])) + Len(wbuf.buffer)
              + Cardinality(NewlinesAt(Stream)) = Len(Stream)

\* a line that arrived in three pieces was given once, and a piece waits in the buffer
C21_Witness ==
    /\ wbuf.made
    /\ stream = << <<"{">>, <<"}">>, <<"\n", "b">>, <<"a">> >>
    /\ Len(fed) = 1
    /\ fed[1].in.payload = <<"{", "}">>
    /\ wbuf.buffer = <<"b", "a">>


---------------------------------------------------------------------------
(* The pretty renderer, and emit calls that run at the same time *)

\* json.MarshalIndent(v, prefix, indent): the text, or an error
MarshalIndent(v, prefix, indent) ==
    CASE v.kind = "ints" /\ v.s # <<>> ->
            [err |-> FALSE,
             b |-> <<"[">>
                   \o Concat([i \in DOMAIN v.s |->
                                 (IF i > 1 THEN <<",">> ELSE <<>>)
                                     \o <<"\n">> \o prefix \o indent \o <<v.s[i]>>])
                   \o <<"\n">> \o prefix \o <<"]">>]
      [] OTHER -> marshalAny(v)

\* the texts of PrettyLog
AttrLead == <<" ", " ", "|", " ">>
IndentPrefix == <<" ", " ", "|", " ", " ">>
Indent == <<" ", " ">>

\* the Fprintf of PrettyLog for one attribute
prettyAttr(a) ==
    IF a.Value.kind \in {"string", "int"}
    THEN AttrLead \o a.Key \o <<":", " ">> \o a.Value.s \o <<"\n">>
    ELSE AttrLead \o a.Key \o <<":", " ">>
             \o MarshalIndent(a.Value, IndentPrefix, Indent).b \o <<"\n">>

\* the loop of PrettyLog over attrs from element i on: the Write calls it makes
RECURSIVE prettyAttrs(_, _, _)
prettyAttrs(skipFields, attrs, i) ==
    IF i > Len(attrs) THEN <<>>
    ELSE (IF attrs[i].Key \in skipFields THEN <<>> ELSE << prettyAttr(attrs[i]) >>)
             \o prettyAttrs(skipFields, attrs, i + 1)

\* a variant of PrettyLog that does not look at the exclusion set
PrettyLogSkipsNothing(skipFields, level, msg, attrs) ==
    << levelColor(level) \o <<":", " ">> \o msg \o <<"\n">> >> \o prettyAttrs({}, attrs, 1)

\* the closure PrettyLog returns, built with SkipFields(skipFields...): the Write calls
\* it makes on out, one for each Fprintf
PrettyLog(skipFields, level, msg, attrs) ==
    << levelColor(level) \o <<":", " ">> \o msg \o <<"\n">> >>
        \o prettyAttrs(skipFields, attrs, 1)

\* the goroutines that emit at the same time
MaxGo == 2

\* the renderers, the exclusion sets and the attribute lists of the emit calls
Renderers == {"JSONLog", "PrettyLog"}
SkipSets == { {}, {<<"a">>} }
EmitAttrLists ==
    { <<>>,
      <<Attr(<<"a">>, Num(<<"1">>))>>,
      <<Attr(<<"b">>, Str(<<"v">>)), Attr(<<"a">>, Num(<<"2">>))>>,
      <<Attr(<<"l">>, Ints(<<"1", "2">>)), Attr(<<"n">>, NilAny)>>,
      <<Attr(<<"a">>, Ints(<<>>)), Attr(<<"k">>, NoJSON)>> }

\* the Write calls one call of the LogFunc makes, in order
renderWrites(renderer, skipFields, entry) ==
    IF renderer = "JSONLog" THEN jsonFormatter(entry)
    ELSE PrettyLog(skipFields, entry.Level, entry.Message, entry.Fields)

\* a goroutine calls the LogFunc: all calls go through the one LogFunc of the logger
EmitBegin(renderer, skipFields, level, msg, attrs) ==
    /\ Len(pcs) < MaxGo
    /\ \A k \in DOMAIN pcs : pcs[k].renderer = renderer /\ pcs[k].skipFields = skipFields
    /\ LET entry == logEntry(level, <<"T", "1">>, msg, attrs)
       IN  pcs' = Append(pcs, [renderer |-> renderer, skipFields |-> skipFields,
                               entry |-> entry,
                               todo |-> renderWrites(renderer, skipFields, entry)])
    /\ last' = [op |-> "EmitBegin"]
    /\ UNCHANGED <<heap, ctxs, logger, added, passed, rendered, exited, printer, output,
                   stdout, fed, wbuf, stream, sink, rpc>>

\* the call of goroutine k makes its next Write on out
EmitWrite(k) ==
    /\ k \in DOMAIN pcs
    /\ pcs[k].todo # <<>>
    /\ sink' = Append(sink, [g |-> k, b |-> Head(pcs[k].todo)])
    /\ pcs' = [pcs EXCEPT ![k].todo = Tail(@)]
    /\ last' = [op |-> "EmitWrite"]
    /\ UNCHANGED <<heap, ctxs, logger, added, passed, rendered, exited, printer, output,
                   stdout, fed, wbuf, stream, rpc>>

InitEmit ==
    /\ heap = <<>>
    /\ ctxs = <<Background>>
    /\ logger = NewCallbackLogger
    /\ added = <<>>
    /\ passed = 0
    /\ rendered = 0
    /\ last = [op |-> "init"]
    /\ exited = FALSE
    /\ printer = NoPrinter
    /\ output = <<>>
    /\ stdout = <<>>
    /\ fed = <<>>
    /\ wbuf = NoWriter
    /\ stream = <<>>
    /\ sink = <<>>
    /\ pcs = <<>>
    /\ rpc = <<>>

NextEmit ==
    \/ \E renderer \in Renderers, skipFields \in SkipSets, attrs \in EmitAttrLists :
          EmitBegin(renderer, skipFields, <<"I", "N", "F", "O">>, <<"m">>, attrs)
    \/ \E k \in 1..MaxGo : EmitWrite(k)

SpecEmit == InitEmit /\ [][NextEmit]_vars

\* the calls that returned, and the positions in the sink of the writes of call k
Returned == {k \in DOMAIN pcs : pcs[k].todo = <<>>}
WritesBy(k) == {i \in DOMAIN sink : sink[i].g = k}

\* C22: each emit call makes exactly one write on the sink, with either renderer, so the
\* writes of two calls that run at the same time are never interleaved
C22_OneWritePerEmit ==
    /\ \A k \in Returned : Cardinality(WritesBy(k)) = 1
    /\ \A i, j, l \in DOMAIN sink :
          (i < j /\ j < l /\ sink[i].g = sink[l].g) => sink[j].g = sink[i].g


\* the texts call k wrote on the sink, in the order it wrote them
TextsBy(k) ==
    LET at == SelectSeq([i \in DOMAIN sink |-> i], LAMBDA i : sink[i].g = k)
    IN  [n \in DOMAIN at |-> sink[at[n]].b]

\* the attributes of call k whose key is not in its exclusion set, in list order
Shown(k) == SelectSeq(pcs[k].entry.Fields, LAMBDA a : a.Key \notin pcs[k].skipFields)

\* a text without the newlines, spaces and bars that the indentation adds
Unindented(b) == SelectSeq(b, LAMBDA ch : ch \notin {"\n", " ", "|"})

\* every line of b after the first begins with the indentation prefix
ContinuesIndented(b) ==
    \A i \in DOMAIN b :
        b[i] = "\n" => /\ i + Len(IndentPrefix) <= Len(b)
                       /\ SubSeq(b, i + 1, i + Len(IndentPrefix)) = IndentPrefix

\* b is the attribute block of a: key and value on one line for a scalar
InlineBlock(b, a) == b = AttrLead \o a.Key \o <<":", " ">> \o a.Value.s \o <<"\n">>

\* b is the attribute block of a, the value being JSON text of the value, indented
IndentedBlock(b, a) ==
    LET lead == AttrLead \o a.Key \o <<":", " ">>
        json == SubSeq(b, Len(lead) + 1, Len(b) - 1)
    IN  /\ Len(b) > Len(lead) + 1
        /\ SubSeq(b, 1, Len(lead)) = lead
        /\ b[Len(b)] = "\n"
        /\ ~marshalAny(a.Value).err
        /\ Unindented(json) = marshalAny(a.Value).b
        /\ ContinuesIndented(json)

\* b is the attribute block of a value json cannot encode: the key and no value
EmptyBlock(b, a) ==
    /\ marshalAny(a.Value).err
    /\ b = AttrLead \o a.Key \o <<":", " ">> \o <<"\n">>

Scalar(v) == v.kind \in {"string", "int"}

PrettyReturned == {k \in Returned : pcs[k].renderer = "PrettyLog"}

\* the header line of call k, the level as the call gave it
HeaderOf(k) ==
    <<levelColors(ToLower(pcs[k].entry.Level))>> \o pcs[k].entry.Level \o <<"ESC[0m">>
        \o <<":", " ">> \o pcs[k].entry.Message \o <<"\n">>

\* C23 as stated: the pretty renderer writes the header and then one block for every
\* attribute whose key is not in the exclusion set, in list order, and nothing for an
\* excluded one; a scalar inline and every other value as indented JSON
C23_SkipsExcludedKeys ==
    \A k \in PrettyReturned :
        /\ Len(TextsBy(k)) = 1 + Len(Shown(k))
        /\ TextsBy(k)[1] = HeaderOf(k)
        /\ \A n \in DOMAIN Shown(k) :
              IF Scalar(Shown(k)[n].Value)
              THEN InlineBlock(TextsBy(k)[n + 1], Shown(k)[n])
              ELSE IndentedBlock(TextsBy(k)[n + 1], Shown(k)[n])

\* C23 amended: as stated, and a value json cannot encode is written as the empty text
C23_SkipsExcludedKeysEncodable ==
    \A k \in PrettyReturned :
        /\ Len(TextsBy(k)) = 1 + Len(Shown(k))
        /\ TextsBy(k)[1] = HeaderOf(k)
        /\ \A n \in DOMAIN Shown(k) :
              CASE Scalar(Shown(k)[n].Value) -> InlineBlock(TextsBy(k)[n + 1], Shown(k)[n])
                [] marshalAny(Shown(k)[n].Value).err ->
                      EmptyBlock(TextsBy(k)[n + 1], Shown(k)[n])
                [] OTHER -> IndentedBlock(TextsBy(k)[n + 1], Shown(k)[n])

\* a call that left out one of its two attributes, and one that wrote a slice on
\* several lines
C23_Witness ==
    /\ PrettyReturned = {1, 2}
    /\ pcs[1].skipFields = {<<"a">>}
    /\ Len(pcs[1].entry.Fields) = 2
    /\ Len(Shown(1)) = 1
    /\ Len(TextsBy(1)) = 2
    /\ Len(pcs[2].entry.Fields) = 2
    /\ pcs[2].entry.Fields[1].Value = Ints(<<"1", "2">>)
    /\ Len(TextsBy(2)) = 3
    /\ Cardinality({i \in DOMAIN TextsBy(2)[2] : TextsBy(2)[2][i] = "\n"}) = 4


---------------------------------------------------------------------------
(* The logger's configuration: C24 *)

\* C24: the threshold and the collector list change only through SetLevel and
\* AddCollector: a log call that is not Fatal, filtered or not, leaves both as they
\* were, SetLevel leaves the collector list, and AddCollector leaves the threshold and
\* the collectors registered before, in their order
C24_OnlySetLevelAndAddCollector ==
    [][/\ last'.op \in (LogOps \ FatalOps) => logger' = logger
       /\ last'.op = "SetLevel" => logger'.Collectors = logger.Collectors
       /\ last'.op = "AddCollector" =>
             /\ logger'.Level = logger.Level
             /\ Len(logger'.Collectors) = Len(logger.Collectors) + 1
             /\ SubSeq(logger'.Collectors, 1, Len(logger.Collectors)) = logger.Collectors
       /\ logger' # logger => last'.op \in {"SetLevel", "AddCollector"}]_vars

\* a filtered call after a call that passed, on a logger whose threshold and collector
\* list were both changed before
C24_Witness ==
    /\ last.op \in (LogOps \ FatalOps)
    /\ last.level < last.threshold
    /\ last.calls = <<>>
    /\ passed > 0
    /\ logger.Level = LevelWarn
    /\ logger.Collectors = <<"DefaultContext", "DefaultTrace", "DefaultTrace">>


---------------------------------------------------------------------------
(* The line printers: C25 .. C27 *)

\* the lines before line i that are not empty (logcat skips an empty line), and the
\* last of them
Before(i) == {j \in 1..(i - 1) : LineOf(fed[j].in) # <<>>}
Previous(i) == CHOOSE j \in Before(i) : \A l \in Before(i) : l <= j

\* C25: a marker is written for a JSON line only when the line right before it was a
\* JSON object with an equal field set; after an invalid line or a free-text line a
\* repeat of an earlier entry is rendered in full again
C25_MarkerOnlyAfterEqualEntry ==
    \A i \in DOMAIN fed :
        (IsObject(fed[i]) /\ WroteMarker(fed[i])) =>
            /\ Before(i) # {}
            /\ IsObject(fed[Previous(i)])
            /\ ObjectOf(fed[Previous(i)]) = ObjectOf(fed[i])

\* C26: the first JSON line of a fresh compactor, and the first JSON line after a
\* free-text line, is rendered as a block and never as a marker, whatever the object
C26_FirstEntryIsABlock ==
    \A i \in DOMAIN fed :
        (IsObject(fed[i]) /\ (Before(i) = {} \/ IsText(fed[Previous(i)]))) =>
            /\ ~WroteMarker(fed[i])
            /\ WroteBlock(fed[i])


\* C27: no input line makes the compactor fail with a run-time panic: PrintRawLine
\* takes every string, the empty one too, and the loop of logcat every line, also one
\* that ends with the delimiter so that its payload is empty
C27_NeverPanics ==
    /\ ~printer.panicked
    /\ \A i \in DOMAIN fed : ~fed[i].post.panicked


---------------------------------------------------------------------------
(* WithFields and its arguments: C28, C29 *)

\* the place of a key in the ascending order of the keys
KeyRank(k) == CHOOSE i \in DOMAIN KeyOrder : KeyOrder[i] = k

\* the last call was WithFields with one argument, a map
MapCall == last.op = "WithFields" /\ Len(last.args) = 1 /\ last.args[1].kind = "map"

\* C28: WithFields called with a map attaches one attribute per entry of the map, in
\* ascending key order, and no other: as many elements as the map has keys, none of
\* them with an empty key
C28_MapGivesItsEntries ==
    MapCall =>
        LET list == NewAttrs(last.ctx)
            entries == last.args[1].m
        IN  /\ Len(list) = Cardinality(entries)
            /\ \A i \in DOMAIN list : list[i].Key # ""
            /\ Range(list) = entries
            /\ \A i, j \in DOMAIN list : i < j => KeyRank(list[i].Key) < KeyRank(list[j].Key)

\* C29: collectArgs ends on every argument list and uses every argument, giving the
\* attributes in argument order: a string and the argument after it give one
\* attribute, a last string alone one !BADKEY attribute, an slog.Attr itself, a map
\* its entries, and any other value one !BADKEY attribute
C29_CollectArgsInOrder ==
    last.op = "WithFields" => NewAttrs(last.ctx) = Requested(last.args)


---------------------------------------------------------------------------
(* The gRPC interceptors *)

(***************************************************************************)
(* The incoming metadata is [ok, xtrace, xrequest]: ok is what             *)
(* metadata.FromIncomingContext returns and the two lists are what md.Get  *)
(* gives for "x-trace" and "x-request-id".  uuid is what uuid.New() gives  *)
(* in this call, and handler is what the handler does when it is called:   *)
(* "ok", "error" or "panic".  A call gives [kind, md, uuid, handler,       *)
(* reached, trace, outgoing, logs, panicked]: whether the handler was      *)
(* called, the trace id of the context it was given ([set, id]), the       *)
(* x-trace value appended to the outgoing metadata, the messages logged,   *)
(* and whether the call ended in a panic that nothing recovered.           *)
(***************************************************************************)

NoTrace == [set |-> FALSE, id |-> ""]
Trace(id) == [set |-> TRUE, id |-> id]

\* the interceptor UnaryServerInterceptor returns
UnaryServerInterceptor(md, uuid, handler) ==
    LET traceHeaders ==
            IF md.xtrace # <<>> THEN md.xtrace
            ELSE IF md.xrequest # <<>> THEN md.xrequest
            ELSE <<uuid>>
        trace == IF md.ok THEN Trace(traceHeaders[1]) ELSE NoTrace
        begin == << [level |-> "INFO", msg |-> "GRPC Handler Begin"] >>
        panic == IF handler = "panic"
                 THEN << [level |-> "ERROR", msg |-> "GRPC Handler Panic"] >>
                 ELSE <<>>
        complete == << [level |-> IF handler = "ok" THEN "INFO" ELSE "ERROR",
                        msg |-> "GRPC Handler Complete"] >>
    IN  [kind |-> "unary", md |-> md, uuid |-> uuid, handler |-> handler,
         reached |-> TRUE, trace |-> trace, outgoing |-> trace,
         logs |-> begin \o panic \o complete, panicked |-> FALSE]

\* the interceptor StreamServerInterceptor returns
StreamServerInterceptor(md, uuid, handler) ==
    LET traceHeader == IF Len(md.xtrace) > 0 THEN <<uuid>> ELSE md.xtrace
    IN  IF md.ok /\ traceHeader = <<>>
        THEN \* traceHeader[0]: index out of range
             [kind |-> "stream", md |-> md, uuid |-> uuid, handler |-> handler,
              reached |-> FALSE, trace |-> NoTrace, outgoing |-> NoTrace,
              logs |-> <<>>, panicked |-> TRUE]
        ELSE LET trace == IF md.ok THEN Trace(traceHeader[1]) ELSE NoTrace
             IN  [kind |-> "stream", md |-> md, uuid |-> uuid, handler |-> handler,
                  reached |-> TRUE, trace |-> trace, outgoing |-> trace,
                  logs |-> IF handler = "panic" THEN <<>>
                           ELSE << [level |-> "INFO", msg |-> "GRPC Stream Complete"] >>,
                  panicked |-> handler = "panic"]

\* the calls the server takes
MaxRPC == 2

\* the metadata of the requests and what their handlers do
Metadata ==
    [ok : BOOLEAN, xtrace : {<<>>, <<"t1">>, <<"t1", "t2">>}, xrequest : {<<>>, <<"r1">>}]
HandlerOutcomes == {"ok", "error", "panic"}

\* uuid.New().String(): a value no request and no earlier call holds
NewUUID == IF Len(rpc) = 0 THEN "u1" ELSE IF Len(rpc) = 1 THEN "u2" ELSE "u3"

\* the server goes on while no panic went unrecovered
Serving == Len(rpc) < MaxRPC /\ \A i \in DOMAIN rpc : ~rpc[i].panicked

RPCFrame ==
    UNCHANGED <<heap, ctxs, logger, added, passed, rendered, exited, printer, output,
                stdout, fed, wbuf, stream, sink, pcs>>

\* a unary call arrives
UnaryCall(md, handler) ==
    /\ Serving
    /\ rpc' = Append(rpc, UnaryServerInterceptor(md, NewUUID, handler))
    /\ last' = [op |-> "Unary"]
    /\ RPCFrame

\* a stream is opened
StreamCall(md, handler) ==
    /\ Serving
    /\ rpc' = Append(rpc, StreamServerInterceptor(md, NewUUID, handler))
    /\ last' = [op |-> "Stream"]
    /\ RPCFrame

InitRPC ==
    /\ heap = <<>>
    /\ ctxs = <<Background>>
    /\ logger = NewCallbackLogger
    /\ added = <<>>
    /\ passed = 0
    /\ rendered = 0
    /\ last = [op |-> "init"]
    /\ exited = FALSE
    /\ printer = NoPrinter
    /\ output = <<>>
    /\ stdout = <<>>
    /\ fed = <<>>
    /\ wbuf = NoWriter
    /\ stream = <<>>
    /\ sink = <<>>
    /\ pcs = <<>>
    /\ rpc = <<>>

NextRPC ==
    \/ \E md \in Metadata, handler \in HandlerOutcomes : UnaryCall(md, handler)
    \/ \E md \in Metadata, handler \in HandlerOutcomes : StreamCall(md, handler)

SpecRPC == InitRPC /\ [][NextRPC]_vars

\* C30: the stream interceptor takes the trace id from the request metadata as the
\* unary one does: the x-trace value when the metadata has one, a fresh id when it
\* has none, and either way it calls the handler and does not fail
C30_StreamTraceFromMetadata ==
    \A i \in DOMAIN rpc :
        (rpc[i].kind = "stream" /\ rpc[i].md.ok) =>
            /\ rpc[i].reached
            /\ rpc[i].handler # "panic" => ~rpc[i].panicked
            /\ rpc[i].trace = IF rpc[i].md.xtrace # <<>>
                              THEN Trace(rpc[i].md.xtrace[1])
                              ELSE Trace(rpc[i].uuid)

=============================================================================
